---- MODULE Spec2Model ----
(***************************************************************************)
(* Aadhaar OTP verification lifecycle of the user-verification service:    *)
(* the route handlers of routes/verification.js acting on the Verification *)
(* collection (models/Verification.js) through the Cashfree adapter        *)
(* (services/cashfreeService.js) and the helpers of utils/.                *)
(*                                                                         *)
(* Specification Spec runs each request handler as one atomic step, after  *)
(* the serviceAuth and rate-limit middleware have let the request through. *)
(***************************************************************************)
EXTENDS Integers, Sequences, FiniteSets, TLC

(***************************************************************************)
(* Bounds of the model                                                     *)
(***************************************************************************)
\* the clock advances by a short step (inside the resend cooldown) or by a
\* long one (the lifetime of an OTP), a bounded number of times each
ShortStep == 30000
LongStep == 600000
MaxShortTicks == 1
MaxLongTicks == 1

(***************************************************************************)
(* Program constants                                                       *)
(***************************************************************************)
\* src/routes/verification.js:125  now.getTime() + 10 * 60 * 1000
OtpTtlMs == 600000
\* src/routes/verification.js:436  timeSinceLastOTP < 60000
ResendCooldownMs == 60000
\* src/unnamed/part_003:296  hasExceededAttempts: otpAttempts >= 3
MaxOtpAttempts == 3
\* src/unnamed/part_003:91  otpAttempts: { max: 3 }
SchemaMaxOtpAttempts == 3
\* src/unnamed/part_005:291  /^\d{12}$/
AadhaarDigits == 12
\* src/unnamed/part_005:319  /^\d{6}$/
OtpDigits == 6

(***************************************************************************)
(* JavaScript values of a request body: a type tag and the characters of   *)
(* the value.                                                              *)
(***************************************************************************)
Undefined == [t |-> "undefined", v |-> <<>>]
Str(s) == [t |-> "string", v |-> s]
Num(s) == [t |-> "number", v |-> s]
Bool(b) == [t |-> "boolean", v |-> IF b THEN <<"t">> ELSE <<>>]

\* JavaScript truthiness, as used by `!x` in the handlers
Truthy(x) ==
  CASE x.t = "undefined" -> FALSE
    [] x.t = "boolean" -> x.v # <<>>
    [] x.t = "string" -> x.v # <<>>
    [] x.t = "number" -> x.v # <<"0">>

Digit == {"0", "1", "2", "3", "4", "5", "6", "7", "8", "9"}

\* the characters \s matches, as far as the inputs of the model hold them
Whitespace == {" ", "\t"}

RECURSIVE StripSeparators(_)
\* s.replace(/[\s-]/g, '')
StripSeparators(s) ==
  IF s = <<>> THEN <<>>
  ELSE IF Head(s) \in Whitespace \cup {"-"} THEN StripSeparators(Tail(s))
       ELSE <<Head(s)>> \o StripSeparators(Tail(s))

AllDigits(s) == \A i \in 1..Len(s) : s[i] \in Digit

\* utils/validation.js cleanAadhaarNumber; "TypeError" when the truthy
\* argument has no replace method
cleanAadhaarNumber(x) ==
  IF ~Truthy(x) THEN Str(<<>>)
  ELSE IF x.t = "string" THEN Str(StripSeparators(x.v))
  ELSE [t |-> "TypeError", v |-> <<>>]

isValidAadhaarFormat_AtLeastTwelve(x) ==
  IF ~Truthy(x) \/ x.t # "string" THEN FALSE
  ELSE LET cleaned == StripSeparators(x.v)
       IN Len(cleaned) >= AadhaarDigits /\ AllDigits(cleaned)

\* utils/validation.js isValidAadhaarFormat
isValidAadhaarFormat(x) ==
  IF ~Truthy(x) \/ x.t # "string" THEN FALSE
  ELSE LET cleaned == StripSeparators(x.v)
       IN Len(cleaned) = AadhaarDigits /\ AllDigits(cleaned)

\* utils/validation.js isValidOtpFormat
isValidOtpFormat(x) ==
  IF ~Truthy(x) \/ x.t # "string" THEN FALSE
  ELSE Len(x.v) = OtpDigits /\ AllDigits(x.v)

MaskPlaceholder == <<"X","X","X","X"," ","X","X","X","X"," ","X","X","X","X">>
MaskPrefix == <<"X","X","X","X"," ","X","X","X","X"," ">>

\* utils/validation.js maskAadhaar, on the characters of a string
maskAadhaar(s) ==
  IF s = <<>> \/ Len(s) # AadhaarDigits THEN MaskPlaceholder
  ELSE MaskPrefix \o SubSeq(s, Len(s) - 3, Len(s))

(***************************************************************************)
(* Responses (utils/helpers.js)                                            *)
(***************************************************************************)
NullData == [null |-> TRUE]
NoCode == "undefined"

WithField(r, name, val) ==
  [f \in DOMAIN r \cup {name} |-> IF f = name THEN val ELSE r[f]]

\* createResponse: data, message and error are set only when present
createResponse(success, data, message, error) ==
  LET r0 == [success |-> success]
      r1 == IF data # NullData THEN WithField(r0, "data", data) ELSE r0
      r2 == IF message # "" THEN WithField(r1, "message", message) ELSE r1
  IN  IF error # "" THEN WithField(r2, "error", error) ELSE r2

successResponse(data, message) == createResponse(TRUE, data, message, "")

\* errorResponse(error, message = null) has two parameters: the code some
\* callers pass as a third argument is not read
errorResponse(error, message, code) == createResponse(FALSE, NullData, message, error)

\* the code field of a response body, NoCode when it has none
CodeOf(body) == IF "code" \in DOMAIN body THEN body.code ELSE NoCode
ErrorOf(body) == IF "error" \in DOMAIN body THEN body.error ELSE ""

(***************************************************************************)
(* The Verification collection (models/Verification.js)                    *)
(***************************************************************************)
Users == {"u1"}
NoUser == "undefined"
RefIds == {"21637861", "21637862"}
NoRef == "undefined"

\* hasExceededAttempts with > in place of >=
hasExceededAttempts_OffByOne(rec) == rec.otpAttempts > MaxOtpAttempts

\* hasExceededAttempts
hasExceededAttempts(rec) == rec.otpAttempts >= MaxOtpAttempts

\* isOtpExpired, evaluated at time t
isOtpExpired(rec, t) == t > rec.otpExpiresAt

\* schema validation run by save(): otpAttempts has max 3, status is in the enum
StatusEnum == {"pending", "otp_sent", "otp_verified", "verified", "failed", "expired"}
SchemaValid(rec) ==
  /\ rec.otpAttempts <= SchemaMaxOtpAttempts
  /\ rec.status \in StatusEnum

\* positions of the documents of a user, in creation order
IndexesOf(st, u) == {i \in 1..Len(st) : st[i].userId = u}

SetMax(S) == CHOOSE x \in S : \A y \in S : y <= x
SetMin(S) == CHOOSE x \in S : \A y \in S : x <= y

\* findByUserId: findOne({ userId }).sort({ createdAt: -1 }); documents are
\* kept in creation order, the latest is the last. 0 when there is none.
findByUserId(st, u) ==
  IF IndexesOf(st, u) = {} THEN 0 ELSE SetMax(IndexesOf(st, u))

\* the lookup by reference alone, without the userId
findOneByRef_AnyUser(st, u, ref) ==
  LET m == {i \in 1..Len(st) : st[i].refId = ref \/ st[i].transactionId = ref}
  IN  IF m = {} THEN 0 ELSE SetMin(m)

\* findOne({ userId, $or: [{ refId }, { transactionId: refId }] }): the first
\* matching document in natural order. 0 when there is none.
findOneByRef(st, u, ref) ==
  LET m == {i \in IndexesOf(st, u) : st[i].refId = ref \/ st[i].transactionId = ref}
  IN  IF m = {} THEN 0 ELSE SetMin(m)

(***************************************************************************)
(* The upstream provider and its adapter (services/cashfreeService.js)     *)
(***************************************************************************)
\* sandbox test data of the README: OTP 111000 verifies, 000111 is invalid
TestOtp == <<"1","1","1","0","0","0">>

\* replies of POST /offline-aadhaar/otp: a body with a ref_id, a 2xx body
\* without one, or a failed request (non-2xx status, timeout, no connection)
UpstreamOtpReplies ==
  {[kind |-> "body", ref_id |-> r] : r \in RefIds \cup {NoRef}}
    \cup {[kind |-> "error", ref_id |-> NoRef]}

\* generateAadhaarOTP: { success: true, refId } for a reply with a ref_id;
\* every other reply ends in `throw new Error(errorMessage)`
generateAadhaarOTP(reply) ==
  IF reply.kind = "body" /\ reply.ref_id # NoRef
  THEN [thrown |-> FALSE, success |-> TRUE, refId |-> reply.ref_id]
  ELSE [thrown |-> TRUE, success |-> FALSE, refId |-> NoRef]

\* messages of a verification reply that the provider may send ("" = none)
UpstreamMessages == {"", "Invalid OTP", "Aadhaar verification failed"}

\* String.prototype.includes('OTP') on the messages of the model
IncludesOTP(m) == m \in {"Invalid OTP"}

RawAadhaar == <<"6","5","5","6","7","5","5","2","3","7","1","2">>
MaskedByProvider == <<"X","X","X","X"," ","X","X","X","X"," ","3","7","1","2">>
\* the number as the provider may write it out
WrittenAadhaar == <<"6","5","5","6"," ","7","5","5","2"," ","3","7","1","2">>

\* replies of POST /offline-aadhaar/verify for an OTP: VALID only for the
\* right OTP, otherwise a 2xx body with another status, or a failed request.
\* A VALID body carries aadhaar_number, masked_aadhaar or neither.
UpstreamVerifyReplies(otp) ==
  (IF otp = TestOtp
   THEN {[kind |-> "body", status |-> "VALID", message |-> "",
          aadhaar_number |-> p[1], masked_aadhaar |-> p[2]] :
           p \in {<<<<>>, <<>>>>, <<RawAadhaar, <<>>>>, <<<<>>, MaskedByProvider>>,
                  <<WrittenAadhaar, <<>>>>}}
   ELSE {[kind |-> "body", status |-> "INVALID", message |-> m,
          aadhaar_number |-> <<>>, masked_aadhaar |-> <<>>] : m \in UpstreamMessages})
    \cup {[kind |-> "error", status |-> "", message |-> "",
           aadhaar_number |-> <<>>, masked_aadhaar |-> <<>>]}

verifyAadhaarOTP_KeepsNumber(reply) ==
  IF reply.kind # "body"
  THEN [thrown |-> TRUE, success |-> FALSE, message |-> "", maskedAadhaar |-> <<>>]
  ELSE IF reply.status \in {"VALID", "SUCCESS"}
  THEN [thrown |-> FALSE, success |-> TRUE,
        message |-> "Aadhaar Verification Successful",
        maskedAadhaar |-> IF reply.aadhaar_number # <<>> THEN reply.aadhaar_number
                          ELSE reply.masked_aadhaar]
  ELSE [thrown |-> FALSE, success |-> FALSE,
        message |-> IF reply.message # "" THEN reply.message ELSE "Verification failed",
        maskedAadhaar |-> <<>>]

\* verifyAadhaarOTP: success for status VALID or SUCCESS, a failure result for
\* any other body, and a thrown Error for a failed request
verifyAadhaarOTP(reply) ==
  IF reply.kind # "body"
  THEN [thrown |-> TRUE, success |-> FALSE, message |-> "", maskedAadhaar |-> <<>>]
  ELSE IF reply.status \in {"VALID", "SUCCESS"}
  THEN LET aadhaarFromResponse ==
             IF reply.aadhaar_number # <<>> THEN reply.aadhaar_number
             ELSE reply.masked_aadhaar
       IN [thrown |-> FALSE, success |-> TRUE,
           message |-> IF reply.message # "" THEN reply.message
                       ELSE "Aadhaar Verification Successful",
           maskedAadhaar |->
             IF Len(aadhaarFromResponse) = 12 THEN maskAadhaar(aadhaarFromResponse)
             ELSE IF reply.masked_aadhaar # <<>> THEN reply.masked_aadhaar
             ELSE MaskPlaceholder]
  ELSE [thrown |-> FALSE, success |-> FALSE,
        message |-> IF reply.message # "" THEN reply.message ELSE "Verification failed",
        maskedAadhaar |-> <<>>]

\* cashfreeService.resendAadhaarOTP(refId).  The route calls it and
\* test-production-features.js requires it, but the revision of class
\* CashfreeService at hand predates it; the adapter contract is taken from the
\* specification: the provider's answer normalised to {success, refId?,
\* message}, a success carrying the (possibly new) reference, a failure
\* either returned as a result or thrown.
UpstreamResendReplies ==
  {[kind |-> "body", ref_id |-> r] : r \in RefIds}
    \cup {[kind |-> "rejected", ref_id |-> NoRef], [kind |-> "error", ref_id |-> NoRef]}

resendAadhaarOTP(ref, reply) ==
  IF ref = NoRef \/ reply.kind = "error"
  THEN [thrown |-> TRUE, success |-> FALSE, refId |-> NoRef]
  ELSE IF reply.kind = "rejected"
  THEN [thrown |-> FALSE, success |-> FALSE, refId |-> NoRef]
  ELSE [thrown |-> FALSE, success |-> TRUE, refId |-> reply.ref_id]

(***************************************************************************)
(* State                                                                   *)
(***************************************************************************)
VARIABLES
  store,   \* the documents of the Verification collection, in creation order
  now,     \* the wall clock, in ms
  res,     \* the last request served: route, HTTP status and body of the
           \* response, whether the handler called the provider, the
           \* position of the document it loaded (0 = none), and a bit
           \* that flips with every request
  limits,  \* the memory stores of the rate limiters: per limiter key the
           \* hits counted in the current window and the time it resets
  env,     \* the process environment (NODE_ENV, SERVICE_AUTH_TOKEN)
  arg,     \* the argument handed to a utility function
  out,     \* the value the utility function returned
  call,    \* the provider call in progress inside retryWithBackoff: its
           \* options, the attempt and delay of the loop, the invocations
           \* made and the delays slept so far, and how it ended
  inflight \* the requests being served concurrently: per request its
           \* position in the handler and the document it has loaded

vars == <<store, now, res, limits, env, arg, out, call, inflight>>

\* the parts of the state a route handler never touches
mw == <<limits, env>>
fn == <<arg, out, call, inflight>>

\* no provider call in progress, no request in flight
NoCall == [pc |-> "idle"]
\* the requests that may be under way at the same time
Requests == {"r1", "r2"}
NoRequests == [p \in Requests |-> [pc |-> "idle", answered |-> 0]]

Reply(op, status, body, upstream, target) ==
  [op |-> op, status |-> status, body |-> body, upstream |-> upstream,
   target |-> target, seq |-> 0]

\* the response of a handler becomes the last response
Respond(r) == res' = [r EXCEPT !.seq = 1 - res.seq]

\* RATE_LIMIT_WINDOW_MS and RATE_LIMIT_MAX_REQUESTS as the environment
\* schema defaults them
RateLimitWindowMs == 900000
RateLimitMaxRequests == 100

\* no key has been counted by any limiter
NoHits == [k \in {} |-> [hits |-> 0, resetTime |-> 0]]

\* the service token the process was started with (SERVICE_AUTH_TOKEN)
ServiceToken == "s3cret"

\* NODE_ENV of part_004:144, as far as the limiters distinguish it
NodeEnvs == {"production", "test"}

\* the router as the test scripts run it: NODE_ENV = test, in which every
\* limiter skips, and callers that present the service token
Init ==
  /\ store = <<>>
  /\ now = 0
  /\ res = Reply("none", 0, [success |-> TRUE], FALSE, 0)
  /\ limits = NoHits
  /\ env = [NODE_ENV |-> "test", SERVICE_AUTH_TOKEN |-> ServiceToken,
            RATE_LIMIT_WINDOW_MS |-> RateLimitWindowMs,
            RATE_LIMIT_MAX_REQUESTS |-> RateLimitMaxRequests]
  /\ arg = Undefined
  /\ out = Undefined
  /\ call = NoCall
  /\ inflight = NoRequests

\* verification.save() / Verification.create(): the document is written when
\* it passes schema validation, otherwise save throws a ValidationError
SaveOk(rec) == SchemaValid(rec)

(***************************************************************************)
(* POST /aadhaar/initiate                                                  *)
(***************************************************************************)
\* the document fields set by verificationData (lines 134-171)
verificationData(u, refId, cleaned, t) ==
  [userId |-> u, type |-> "aadhaar", status |-> "otp_sent",
   provider |-> "cashfree",
   transactionId |-> refId, refId |-> refId,
   maskedAadhaar |-> maskAadhaar(cleaned),
   otpSentAt |-> t, otpExpiresAt |-> t + OtpTtlMs,
   consentGiven |-> TRUE,
   auditLog |-> <<[action |-> "initiated", performedBy |-> u, performedAt |-> t]>>]

\* Object.assign(verification, verificationData): every field of
\* verificationData replaces the document's; otpAttempts is not among them
AssignVerificationData(rec, data) ==
  [f \in DOMAIN rec |-> IF f \in DOMAIN data THEN data[f] ELSE rec[f]]

\* a Date field that was never set
NoTime == 0 - 1

\* the schema defaults of the fields verificationData leaves out
SchemaDefaults == [otpAttempts |-> 0, verifiedAt |-> NoTime]

\* Verification.create that leaves the status at the schema default
CreateDocument_Pending(data) ==
  [f \in DOMAIN data \cup DOMAIN SchemaDefaults |->
     IF f = "status" THEN "pending"
     ELSE IF f \in DOMAIN data THEN data[f] ELSE SchemaDefaults[f]]

\* Verification.create(verificationData): schema defaults for the rest
CreateDocument(data) ==
  [f \in DOMAIN data \cup DOMAIN SchemaDefaults |->
     IF f \in DOMAIN data THEN data[f] ELSE SchemaDefaults[f]]

\* the handler: the new collection and the response
InitiateHandler(st, t, u, aadhaarNumber, consentGiven, reply) ==
  IF u = NoUser THEN
    [st |-> st, res |-> Reply("initiate", 400,
       errorResponse("Missing required field: userId", "User ID is required", NoCode), FALSE, 0)]
  ELSE IF ~Truthy(aadhaarNumber) THEN
    [st |-> st, res |-> Reply("initiate", 400,
       errorResponse("Missing required field: aadhaarNumber", "Aadhaar number is required", NoCode), FALSE, 0)]
  ELSE IF ~Truthy(consentGiven) THEN
    [st |-> st, res |-> Reply("initiate", 400,
       errorResponse("User consent required", "User consent is required for Aadhaar verification", NoCode), FALSE, 0)]
  ELSE LET cleanedAadhaar == cleanAadhaarNumber(aadhaarNumber) IN
  IF cleanedAadhaar.t = "TypeError" THEN
    \* caught by the catch block of the handler
    [st |-> st, res |-> Reply("initiate", 500,
       errorResponse("aadhaarNumber.replace is not a function", "An error occurred while initiating verification", NoCode), FALSE, 0)]
  ELSE IF ~isValidAadhaarFormat(cleanedAadhaar) THEN
    [st |-> st, res |-> Reply("initiate", 400,
       errorResponse("Invalid Aadhaar number format", "Aadhaar number must be exactly 12 digits", NoCode), FALSE, 0)]
  ELSE LET i == findByUserId(st, u) IN
  IF i # 0 /\ st[i].status = "verified" THEN
    [st |-> st, res |-> Reply("initiate", 400,
       errorResponse("User is already verified", "This user has already completed Aadhaar verification", NoCode), FALSE, i)]
  ELSE LET otpResult == generateAadhaarOTP(reply) IN
  IF otpResult.thrown THEN
    [st |-> st, res |-> Reply("initiate", 500,
       errorResponse("Failed to generate OTP", "An error occurred while initiating verification", NoCode), TRUE, i)]
  ELSE IF ~otpResult.success THEN
    [st |-> st, res |-> Reply("initiate", 400,
       errorResponse("Failed to generate OTP", "Could not initiate Aadhaar verification", NoCode), TRUE, i)]
  ELSE LET data == verificationData(u, otpResult.refId, cleanedAadhaar.v, t)
           doc == IF i # 0 THEN AssignVerificationData(st[i], data)
                  ELSE CreateDocument(data)
       IN
  IF ~SaveOk(doc) THEN
    [st |-> st, res |-> Reply("initiate", 500,
       errorResponse("Verification validation failed", "An error occurred while initiating verification", NoCode), TRUE, i)]
  ELSE
    [st |-> IF i # 0 THEN [st EXCEPT ![i] = doc] ELSE Append(st, doc),
     res |-> Reply("initiate", 200,
       successResponse([refId |-> otpResult.refId, maskedAadhaar |-> data.maskedAadhaar],
                       "OTP sent successfully"), TRUE, IF i # 0 THEN i ELSE Len(st) + 1)]

\* requests bodies of the model
AadhaarInputs ==
  { Str(RawAadhaar),
    Str(<<"1","2","3","4"," ","5","6","7","8","-","9","0","1","2">>),
    Str(<<"6","5","5","6","7","5","5","2","3","7","1">>),
    Str(<<"6","5","5","6","7","5","5","2","3","7","1","a">>),
    Num(<<"1","2","3","4","5">>),
    Undefined }

ConsentInputs == { Bool(TRUE), Bool(FALSE), Str(<<"f","a","l","s","e">>) }

\* the provider answers only the requests that the handler forwards to it
FailedRequest == [kind |-> "error", ref_id |-> NoRef]
OtpRepliesTo(u, aadhaarNumber, consentGiven) ==
  IF InitiateHandler(store, now, u, aadhaarNumber, consentGiven, FailedRequest).res.upstream
  THEN UpstreamOtpReplies ELSE {FailedRequest}

Initiate(u, aadhaarNumber, consentGiven, reply) ==
  LET r == InitiateHandler(store, now, u, aadhaarNumber, consentGiven, reply)
  IN /\ store' = r.st
     /\ Respond(r.res)
     /\ now' = now
     /\ UNCHANGED <<mw, fn>>

(***************************************************************************)
(* POST /aadhaar/verify                                                    *)
(***************************************************************************)
AttemptsRemainingMessage(n) ==
  CASE n = 0 -> "Verification failed. 3 attempts remaining."
    [] n = 1 -> "Verification failed. 2 attempts remaining."
    [] n = 2 -> "Verification failed. 1 attempts remaining."
    [] OTHER -> "Verification failed. 0 attempts remaining."

\* ApplyVerifyResult with the failure branch counting down instead of up
ApplyVerifyResult_CountsDown(rec, verifyResult, t) ==
  IF verifyResult.success
  THEN [rec EXCEPT !.status = "verified",
                   !.verifiedAt = t,
                   !.maskedAadhaar = IF verifyResult.maskedAadhaar # <<>>
                                     THEN verifyResult.maskedAadhaar ELSE @,
                   !.otpAttempts = 0]
  ELSE LET attempts == rec.otpAttempts - 1
           status == IF IncludesOTP(verifyResult.message) THEN "otp_sent" ELSE "failed"
       IN [rec EXCEPT !.otpAttempts = attempts,
                      !.status = IF attempts >= 3 THEN "failed" ELSE status]

\* ApplyVerifyResult without the `otpAttempts >= 3` block of lines 329-332
ApplyVerifyResult_NoCeiling(rec, verifyResult, t) ==
  IF verifyResult.success
  THEN [rec EXCEPT !.status = "verified",
                   !.verifiedAt = t,
                   !.maskedAadhaar = IF verifyResult.maskedAadhaar # <<>>
                                     THEN verifyResult.maskedAadhaar ELSE @,
                   !.otpAttempts = 0]
  ELSE LET attempts == rec.otpAttempts + 1
           status == IF IncludesOTP(verifyResult.message) THEN "otp_sent" ELSE "failed"
       IN [rec EXCEPT !.otpAttempts = attempts, !.status = status]

\* ApplyVerifyResult that marks every failure result as failed
ApplyVerifyResult_AlwaysFailed(rec, verifyResult, t) ==
  IF verifyResult.success
  THEN [rec EXCEPT !.status = "verified",
                   !.verifiedAt = t,
                   !.maskedAadhaar = IF verifyResult.maskedAadhaar # <<>>
                                     THEN verifyResult.maskedAadhaar ELSE @,
                   !.otpAttempts = 0]
  ELSE [rec EXCEPT !.otpAttempts = rec.otpAttempts + 1, !.status = "failed"]

\* the document after the provider's result (lines 313-333)
ApplyVerifyResult(rec, verifyResult, t) ==
  IF verifyResult.success
  THEN [rec EXCEPT !.status = "verified",
                   !.verifiedAt = t,
                   !.maskedAadhaar = IF verifyResult.maskedAadhaar # <<>>
                                     THEN verifyResult.maskedAadhaar ELSE @,
                   !.otpAttempts = 0]
  ELSE LET attempts == rec.otpAttempts + 1
           status == IF IncludesOTP(verifyResult.message) THEN "otp_sent" ELSE "failed"
       IN [rec EXCEPT !.otpAttempts = attempts,
                      !.status = IF attempts >= 3 THEN "failed" ELSE status]

VerifyHandler(st, t, u, ref, otp, reply) ==
  IF u = NoUser THEN
    [st |-> st, res |-> Reply("verify", 400,
       errorResponse("Missing required field: userId", "User ID is required", NoCode), FALSE, 0)]
  ELSE IF ref = NoRef THEN
    [st |-> st, res |-> Reply("verify", 400,
       errorResponse("Missing required field: refId or transactionId", "Reference ID is required", NoCode), FALSE, 0)]
  ELSE IF ~Truthy(otp) THEN
    [st |-> st, res |-> Reply("verify", 400,
       errorResponse("Missing required field: otp", "OTP is required", NoCode), FALSE, 0)]
  ELSE IF ~isValidOtpFormat(otp) THEN
    [st |-> st, res |-> Reply("verify", 400,
       errorResponse("Invalid OTP format", "OTP must be 6 digits", NoCode), FALSE, 0)]
  ELSE LET i == findOneByRef(st, u, ref) IN
  IF i = 0 THEN
    [st |-> st, res |-> Reply("verify", 404,
       errorResponse("Verification session not found", "No active verification session found for this user", NoCode), FALSE, i)]
  ELSE IF st[i].status # "otp_sent" THEN
    [st |-> st, res |-> Reply("verify", 400,
       errorResponse("OTP not sent for this verification", "Verification status is not otp_sent", NoCode), FALSE, i)]
  ELSE IF isOtpExpired(st[i], t) THEN
    [st |-> st, res |-> Reply("verify", 400,
       errorResponse("OTP has expired", "The OTP has expired. Please request a new one.", "OTP_EXPIRED"), FALSE, i)]
  ELSE IF hasExceededAttempts(st[i]) THEN
    LET doc == [st[i] EXCEPT !.status = "failed"] IN
    IF ~SaveOk(doc) THEN
      [st |-> st, res |-> Reply("verify", 500,
         errorResponse("Verification validation failed", "An error occurred while verifying OTP", NoCode), FALSE, i)]
    ELSE
      [st |-> [st EXCEPT ![i] = doc], res |-> Reply("verify", 400,
         errorResponse("Maximum OTP attempts exceeded",
                       "You have exceeded the maximum number of OTP verification attempts", NoCode), FALSE, i)]
  ELSE LET verifyResult == verifyAadhaarOTP(reply) IN
  IF verifyResult.thrown THEN
    [st |-> st, res |-> Reply("verify", 500,
       errorResponse("Failed to verify OTP", "An error occurred while verifying OTP", NoCode), TRUE, i)]
  ELSE LET doc == ApplyVerifyResult(st[i], verifyResult, t) IN
  IF ~SaveOk(doc) THEN
    [st |-> st, res |-> Reply("verify", 500,
       errorResponse("Verification validation failed", "An error occurred while verifying OTP", NoCode), TRUE, i)]
  ELSE IF verifyResult.success THEN
    [st |-> [st EXCEPT ![i] = doc], res |-> Reply("verify", 200,
       successResponse([status |-> "verified", maskedAadhaar |-> verifyResult.maskedAadhaar],
                       "Aadhaar verification successful"), TRUE, i)]
  ELSE
    [st |-> [st EXCEPT ![i] = doc], res |-> Reply("verify", 400,
       errorResponse(verifyResult.message, AttemptsRemainingMessage(3 - doc.otpAttempts), NoCode), TRUE, i)]

OtpInputs ==
  { Str(TestOtp),
    Str(<<"0","0","0","1","1","1">>),
    Str(<<"1","1","1","0","0">>),
    Str(<<"1","1","1","0","0","a">>),
    Undefined }

FailedVerifyRequest ==
  [kind |-> "error", status |-> "", message |-> "",
   aadhaar_number |-> <<>>, masked_aadhaar |-> <<>>]
VerifyRepliesTo(u, ref, otp) ==
  IF VerifyHandler(store, now, u, ref, otp, FailedVerifyRequest).res.upstream
  THEN UpstreamVerifyReplies(otp.v) ELSE {FailedVerifyRequest}

VerifyOtp(u, ref, otp, reply) ==
  LET r == VerifyHandler(store, now, u, ref, otp, reply)
  IN /\ store' = r.st
     /\ Respond(r.res)
     /\ now' = now
     /\ UNCHANGED <<mw, fn>>

(***************************************************************************)
(* POST /aadhaar/resend                                                    *)
(***************************************************************************)
\* Math.ceil((60000 - timeSinceLastOTP) / 1000)
remainingSeconds(timeSinceLastOTP) ==
  (ResendCooldownMs - timeSinceLastOTP + 999) \div 1000

\* RefreshOtpSession that forgets to reset the attempts counter
RefreshOtpSession_KeepsAttempts(rec, t, refId) ==
  [rec EXCEPT !.otpSentAt = t, !.otpExpiresAt = t + OtpTtlMs,
              !.status = "otp_sent", !.refId = refId]

\* the update of the document after a successful resend (lines 456-464)
RefreshOtpSession(rec, t, refId) ==
  [rec EXCEPT !.otpSentAt = t, !.otpExpiresAt = t + OtpTtlMs,
              !.otpAttempts = 0, !.status = "otp_sent", !.refId = refId]

\* `You can request a new OTP after ${remainingSeconds} seconds`
CooldownMessage(n) ==
  "You can request a new OTP after " \o ToString(n) \o " seconds"

ResendHandler(st, t, u, ref, reply) ==
  IF u = NoUser THEN
    [st |-> st, res |-> Reply("resend", 400,
       errorResponse("Missing required field: userId", "User ID is required", NoCode), FALSE, 0)]
  ELSE LET i == IF ref # NoRef THEN findOneByRef(st, u, ref) ELSE findByUserId(st, u) IN
  IF i = 0 THEN
    [st |-> st, res |-> Reply("resend", 404,
       errorResponse("No verification found", "Please initiate verification first", NoCode), FALSE, i)]
  ELSE IF st[i].status = "verified" THEN
    [st |-> st, res |-> Reply("resend", 400,
       errorResponse("Already verified", "This user is already verified", NoCode), FALSE, i)]
  ELSE IF t - st[i].otpSentAt < ResendCooldownMs THEN
    [st |-> st, res |-> Reply("resend", 429,
       errorResponse("Please wait before requesting another OTP",
                     CooldownMessage(remainingSeconds(t - st[i].otpSentAt)),
                     "RESEND_COOLDOWN"), FALSE, i)]
  ELSE LET otpResult == resendAadhaarOTP(st[i].refId, reply) IN
  IF otpResult.thrown THEN
    [st |-> st, res |-> Reply("resend", 500,
       errorResponse("Failed to resend OTP",
                     "An error occurred while resending OTP", NoCode), TRUE, i)]
  ELSE IF ~otpResult.success THEN
    [st |-> st, res |-> Reply("resend", 400,
       errorResponse("Failed to resend OTP", "Could not resend OTP", NoCode), TRUE, i)]
  ELSE LET doc == RefreshOtpSession(st[i], t, otpResult.refId) IN
  IF ~SaveOk(doc) THEN
    [st |-> st, res |-> Reply("resend", 500,
       errorResponse("Verification validation failed", "An error occurred while resending OTP", NoCode), TRUE, i)]
  ELSE
    [st |-> [st EXCEPT ![i] = doc], res |-> Reply("resend", 200,
       successResponse([refId |-> otpResult.refId, maskedAadhaar |-> doc.maskedAadhaar],
                       "OTP resent successfully"), TRUE, i)]

FailedResendRequest == [kind |-> "error", ref_id |-> NoRef]
ResendRepliesTo(u, ref) ==
  IF ResendHandler(store, now, u, ref, FailedResendRequest).res.upstream
  THEN UpstreamResendReplies ELSE {FailedResendRequest}

Resend(u, ref, reply) ==
  LET r == ResendHandler(store, now, u, ref, reply)
  IN /\ store' = r.st
     /\ Respond(r.res)
     /\ now' = now
     /\ UNCHANGED <<mw, fn>>

(***************************************************************************)
(* GET /status/:userId and GET /badge/:userId                              *)
(***************************************************************************)
\* Math.max(0, 3 - (verification.otpAttempts || 0))
attemptsRemaining(rec) ==
  IF 3 - rec.otpAttempts > 0 THEN 3 - rec.otpAttempts ELSE 0

\* isVerified
isVerified(rec) == rec.status = "verified"

\* StatusHandler that moves a lapsed OTP session to expired as it reads it
StatusHandler_ExpiresEagerly(st, t, u) ==
  LET i == findByUserId(st, u) IN
  IF i = 0 THEN
    [st |-> st, res |-> Reply("status", 200,
       successResponse([status |-> "not_initiated", isVerified |-> FALSE],
                       "Verification not initiated"), FALSE, 0)]
  ELSE
    LET doc == IF st[i].status = "otp_sent" /\ isOtpExpired(st[i], t)
               THEN [st[i] EXCEPT !.status = "expired"] ELSE st[i]
    IN [st |-> [st EXCEPT ![i] = doc], res |-> Reply("status", 200,
       successResponse([status |-> doc.status,
                        isVerified |-> isVerified(doc),
                        type |-> doc.type,
                        maskedAadhaar |-> doc.maskedAadhaar,
                        provider |-> doc.provider,
                        verifiedAt |-> doc.verifiedAt,
                        attemptsRemaining |-> attemptsRemaining(doc)], ""), FALSE, i)]

\* GET /status/:userId (the time of the request is not read)
StatusHandler(st, t, u) ==
  LET i == findByUserId(st, u) IN
  IF i = 0 THEN
    [st |-> st, res |-> Reply("status", 200,
       successResponse([status |-> "not_initiated", isVerified |-> FALSE],
                       "Verification not initiated"), FALSE, 0)]
  ELSE
    [st |-> st, res |-> Reply("status", 200,
       successResponse([status |-> st[i].status,
                        isVerified |-> isVerified(st[i]),
                        type |-> st[i].type,
                        maskedAadhaar |-> st[i].maskedAadhaar,
                        provider |-> st[i].provider,
                        verifiedAt |-> st[i].verifiedAt,
                        attemptsRemaining |-> attemptsRemaining(st[i])], ""), FALSE, i)]

GetStatus(u) ==
  LET r == StatusHandler(store, now, u)
  IN /\ store' = r.st
     /\ Respond(r.res)
     /\ now' = now
     /\ UNCHANGED <<mw, fn>>

\* GET /badge/:userId
BadgeHandler(st, t, u) ==
  LET i == findByUserId(st, u) IN
  IF i = 0 \/ ~isVerified(st[i]) THEN
    [st |-> st, res |-> Reply("badge", 200,
       successResponse([isVerified |-> FALSE, badge |-> NullData], ""), FALSE, i)]
  ELSE
    [st |-> st, res |-> Reply("badge", 200,
       successResponse([isVerified |-> TRUE,
                        badge |-> [type |-> st[i].type,
                                   status |-> st[i].status,
                                   verifiedAt |-> st[i].verifiedAt,
                                   maskedAadhaar |-> st[i].maskedAadhaar,
                                   provider |-> st[i].provider]], ""), FALSE, i)]

GetBadge(u) ==
  LET r == BadgeHandler(store, now, u)
  IN /\ store' = r.st
     /\ Respond(r.res)
     /\ now' = now
     /\ UNCHANGED <<mw, fn>>

(***************************************************************************)
(* POST /pan/verify, behind the feature flag FEATURE_PAN                   *)
(***************************************************************************)
\* the documents the collection may hold at most
MaxDocuments == 3

UpperCase ==
  {"A","B","C","D","E","F","G","H","I","J","K","L","M",
   "N","O","P","Q","R","S","T","U","V","W","X","Y","Z"}

\* /^[A-Z]{5}[0-9]{4}[A-Z]{1}$/.test(panNumber)
IsPanFormat(s) ==
  /\ Len(s) = 10
  /\ \A i \in 1..5 : SubSeq(s, i, i) \in UpperCase
  /\ \A i \in 6..9 : SubSeq(s, i, i) \in Digit
  /\ SubSeq(s, 10, 10) \in UpperCase

NoPan == ""
PanInputs == {"ABCDE1234F", "abcde1234f", NoPan}

\* what provider.verifyPAN comes back with
PanResults == {[thrown |-> FALSE, success |-> TRUE], [thrown |-> FALSE, success |-> FALSE],
               [thrown |-> TRUE, success |-> FALSE]}

\* the document Verification.create is given (lines 634-671), with the schema
\* defaults and, unset, the fields of an Aadhaar document
PanDocument(u, panNumber, success, t) ==
  [userId |-> u, type |-> "pan", status |-> IF success THEN "verified" ELSE "failed",
   provider |-> "cashfree",
   maskedPAN |-> SubSeq(panNumber, 1, 2) \o "XXX" \o SubSeq(panNumber, 7, 10),
   transactionId |-> NoRef, refId |-> NoRef, maskedAadhaar |-> <<>>,
   otpSentAt |-> NoTime, otpExpiresAt |-> NoTime,
   consentGiven |-> TRUE,
   auditLog |-> <<[action |-> "verified", performedBy |-> u, performedAt |-> t]>>,
   otpAttempts |-> 0, verifiedAt |-> IF success THEN t ELSE NoTime]

PanHandler(e, st, t, u, panNumber, consentGiven, result) ==
  IF e.FEATURE_PAN # "true" THEN
    [st |-> st, res |-> Reply("pan", 503,
       [success |-> FALSE, code |-> "FEATURE_NOT_ENABLED"], FALSE, 0)]
  ELSE IF u = NoUser THEN
    [st |-> st, res |-> Reply("pan", 400,
       errorResponse("Missing required field: userId", "User ID is required", NoCode), FALSE, 0)]
  ELSE IF panNumber = NoPan THEN
    [st |-> st, res |-> Reply("pan", 400,
       errorResponse("Missing required field: panNumber", "PAN number is required", NoCode), FALSE, 0)]
  ELSE IF ~consentGiven THEN
    [st |-> st, res |-> Reply("pan", 400,
       errorResponse("Consent required", "User consent is required for PAN verification", NoCode), FALSE, 0)]
  ELSE IF ~IsPanFormat(panNumber) THEN
    [st |-> st, res |-> Reply("pan", 400,
       errorResponse("Invalid PAN format", "PAN must be in format: ABCDE1234F", NoCode), FALSE, 0)]
  ELSE IF result.thrown THEN
    [st |-> st, res |-> Reply("pan", 500,
       errorResponse("Failed to verify PAN", "An error occurred while verifying PAN", NoCode), TRUE, 0)]
  ELSE
    LET doc == PanDocument(u, panNumber, result.success, t) IN
    [st |-> Append(st, doc), res |-> Reply("pan", 200,
       successResponse([maskedPAN |-> doc.maskedPAN, status |-> doc.status],
                       "PAN verified successfully"), TRUE, Len(st) + 1)]

VerifyPan(u, panNumber, consentGiven, result) ==
  LET r == PanHandler(env, store, now, u, panNumber, consentGiven, result)
  IN /\ Len(store) < MaxDocuments
     /\ store' = r.st
     /\ Respond(r.res)
     /\ now' = now
     /\ UNCHANGED <<mw, fn>>

\* the router with PAN verification switched on or left off
InitTypes ==
  /\ store = <<>>
  /\ now = 0
  /\ res = Reply("none", 0, [success |-> TRUE], FALSE, 0)
  /\ limits = NoHits
  /\ \E flag \in {"true", "undefined"} :
       env = [NODE_ENV |-> "test", SERVICE_AUTH_TOKEN |-> ServiceToken,
              RATE_LIMIT_WINDOW_MS |-> RateLimitWindowMs,
              RATE_LIMIT_MAX_REQUESTS |-> RateLimitMaxRequests,
              FEATURE_PAN |-> flag]
  /\ arg = Undefined
  /\ out = Undefined
  /\ call = NoCall
  /\ inflight = NoRequests

(***************************************************************************)
(* Time passes between requests                                            *)
(***************************************************************************)
TickShort ==
  /\ (now % LongStep) \div ShortStep < MaxShortTicks
  /\ now' = now + ShortStep
  /\ UNCHANGED <<store, res, mw, fn>>

TickLong ==
  /\ now \div LongStep < MaxLongTicks
  /\ now' = now + LongStep
  /\ UNCHANGED <<store, res, mw, fn>>

\* the requests of the model: for an identified user every value of each
\* field of the body, the other fields valid, and one request that carries
\* no user id
InitiateRequests ==
  [userId : Users, aadhaarNumber : AadhaarInputs, consentGiven : {Bool(TRUE)}]
    \cup [userId : Users, aadhaarNumber : {Str(RawAadhaar)}, consentGiven : ConsentInputs]
    \cup {[userId |-> NoUser, aadhaarNumber |-> Str(RawAadhaar), consentGiven |-> Bool(TRUE)]}

VerifyRequests ==
  [userId : Users, refId : RefIds, otp : OtpInputs]
    \cup [userId : Users, refId : {NoRef}, otp : {Str(TestOtp)}]
    \cup {[userId |-> NoUser, refId |-> NoRef, otp |-> Str(TestOtp)]}

ResendRequests ==
  [userId : Users, refId : RefIds \cup {NoRef}]
    \cup {[userId |-> NoUser, refId |-> NoRef]}

Next ==
  \/ \E q \in InitiateRequests :
        \E reply \in OtpRepliesTo(q.userId, q.aadhaarNumber, q.consentGiven) :
           Initiate(q.userId, q.aadhaarNumber, q.consentGiven, reply)
  \/ \E q \in VerifyRequests :
        \E reply \in VerifyRepliesTo(q.userId, q.refId, q.otp) :
           VerifyOtp(q.userId, q.refId, q.otp, reply)
  \/ \E q \in ResendRequests :
        \E reply \in ResendRepliesTo(q.userId, q.refId) :
           Resend(q.userId, q.refId, reply)
  \/ \E u \in Users : GetStatus(u)
  \/ \E u \in Users : GetBadge(u)
  \/ TickShort
  \/ TickLong

Spec == Init /\ [][Next]_vars

\* requests of an identified user that pass validation, a resend naming no
\* refId
PanRequests ==
  [userId : Users, panNumber : PanInputs, consentGiven : BOOLEAN]

NextTypes ==
  \/ \E q \in PanRequests, result \in PanResults :
        VerifyPan(q.userId, q.panNumber, q.consentGiven, result)
  \/ \E u \in Users :
        \E reply \in OtpRepliesTo(u, Str(RawAadhaar), Bool(TRUE)) :
           Initiate(u, Str(RawAadhaar), Bool(TRUE), reply)
  \/ \E u \in Users :
        \E reply \in ResendRepliesTo(u, NoRef) : Resend(u, NoRef, reply)
  \/ \E u \in Users : GetStatus(u)
  \/ \E u \in Users : GetBadge(u)
  \/ TickLong

SpecTypes == InitTypes /\ [][NextTypes]_vars

(***************************************************************************)
(* Two users of the service                                                *)
(***************************************************************************)
TwoUsers == {"u1", "u2"}
WrongOtp == <<"0","0","0","1","1","1">>

NextUsers ==
  \/ \E u \in TwoUsers :
        \E reply \in OtpRepliesTo(u, Str(RawAadhaar), Bool(TRUE)) :
           Initiate(u, Str(RawAadhaar), Bool(TRUE), reply)
  \/ \E u \in TwoUsers, ref \in RefIds, otp \in {Str(TestOtp), Str(WrongOtp)} :
        \E reply \in VerifyRepliesTo(u, ref, otp) : VerifyOtp(u, ref, otp, reply)
  \/ \E u \in TwoUsers, ref \in RefIds :
        \E reply \in ResendRepliesTo(u, ref) : Resend(u, ref, reply)

SpecUsers == Init /\ [][NextUsers]_vars

(***************************************************************************)
(* The handlers with a database that may reject a write: await save() or   *)
(* await create() throws and the catch block of the handler answers        *)
(***************************************************************************)
CatchMessage(op) ==
  CASE op = "initiate" -> "An error occurred while initiating verification"
    [] op = "verify" -> "An error occurred while verifying OTP"
    [] OTHER -> "An error occurred while resending OTP"

\* a handler that answers what it was going to answer when its save throws
Persist_AnswersAnyway(st, r, saved) ==
  IF saved THEN r ELSE [st |-> st, res |-> r.res]

\* r is what the handler does when its write is accepted; when the write is
\* rejected nothing is stored and the catch block answers 500
Persist(st, r, saved) ==
  IF saved \/ (r.st = st /\ r.res.status # 200) THEN r
  ELSE [st |-> st, res |-> Reply(r.res.op, 500,
          errorResponse("write failed", CatchMessage(r.res.op), NoCode),
          r.res.upstream, r.res.target)]

DbInitiate(u, reply, saved) ==
  LET r == Persist(store, InitiateHandler(store, now, u, Str(RawAadhaar), Bool(TRUE), reply), saved)
  IN /\ store' = r.st
     /\ Respond(r.res)
     /\ now' = now
     /\ UNCHANGED <<mw, fn>>

DbVerifyOtp(q, reply, saved) ==
  LET r == Persist(store, VerifyHandler(store, now, q.userId, q.refId, q.otp, reply), saved)
  IN /\ store' = r.st
     /\ Respond(r.res)
     /\ now' = now
     /\ UNCHANGED <<mw, fn>>

DbResend(q, reply, saved) ==
  LET r == Persist(store, ResendHandler(store, now, q.userId, q.refId, reply), saved)
  IN /\ store' = r.st
     /\ Respond(r.res)
     /\ now' = now
     /\ UNCHANGED <<mw, fn>>

NextDb ==
  \/ \E u \in Users, saved \in BOOLEAN :
        \E reply \in OtpRepliesTo(u, Str(RawAadhaar), Bool(TRUE)) : DbInitiate(u, reply, saved)
  \/ \E q \in VerifyRequests, saved \in BOOLEAN :
        \E reply \in VerifyRepliesTo(q.userId, q.refId, q.otp) : DbVerifyOtp(q, reply, saved)
  \/ \E q \in ResendRequests, saved \in BOOLEAN :
        \E reply \in ResendRepliesTo(q.userId, q.refId) : DbResend(q, reply, saved)
  \/ TickLong

SpecDb == Init /\ [][NextDb]_vars

(***************************************************************************)
(* middleware/auth.js, middleware/rateLimiting.js and the limiter of       *)
(* app.js                                                                  *)
(***************************************************************************)
\* req.headers['x-service-auth'] when the caller sent no such header
NoToken == "undefined"
Tokens == {NoToken, "wr0ng", ServiceToken}
Ips == {"10.0.0.1"}

\* serviceAuthMiddleware: either it answers 401 itself or it calls next()
serviceAuthMiddleware(e, op, token) ==
  IF token = NoToken
  THEN [next |-> FALSE, res |-> Reply(op, 401,
          [success |-> FALSE, error |-> "Missing service authentication token",
           code |-> "MISSING_SERVICE_AUTH"], FALSE, 0)]
  ELSE IF token # e.SERVICE_AUTH_TOKEN
  THEN [next |-> FALSE, res |-> Reply(op, 401,
          [success |-> FALSE, error |-> "Invalid service authentication token",
           code |-> "INVALID_SERVICE_AUTH"], FALSE, 0)]
  ELSE [next |-> TRUE, res |-> Reply(op, 0, [success |-> TRUE], FALSE, 0)]

\* the options each limiter is built with: window, ceiling, the prefix and
\* the subject of its keys, whether its skip function looks at NODE_ENV,
\* and the body it answers 429 with
otpGenerationLimiter ==
  [windowMs |-> 60 * 60 * 1000, max |-> 3, prefix |-> "otp-gen", keyBy |-> "user",
   skipInTest |-> TRUE,
   body |-> [success |-> FALSE, error |-> "Rate limit exceeded",
             message |-> "Too many OTP requests. Please try again after 1 hour.",
             code |-> "RATE_LIMIT_EXCEEDED", retryAfter |-> "1 hour"]]

otpResendLimiter ==
  [windowMs |-> 60 * 60 * 1000, max |-> 5, prefix |-> "otp-resend", keyBy |-> "user",
   skipInTest |-> TRUE,
   body |-> [success |-> FALSE, error |-> "Rate limit exceeded",
             message |-> "Too many OTP resend requests. Please try again after 1 hour.",
             code |-> "RATE_LIMIT_EXCEEDED", retryAfter |-> "1 hour"]]

otpVerificationLimiter ==
  [windowMs |-> 15 * 60 * 1000, max |-> 10, prefix |-> "otp-verify", keyBy |-> "user",
   skipInTest |-> TRUE,
   body |-> [success |-> FALSE, error |-> "Rate limit exceeded",
             message |-> "Too many verification attempts. Please try again after 15 minutes.",
             code |-> "RATE_LIMIT_EXCEEDED", retryAfter |-> "15 minutes"]]

\* app.js: the limiter mounted on /api/, keyed by req.ip, built from the
\* environment; it has no skip function and answers with its message
limiter(e) ==
  [windowMs |-> e.RATE_LIMIT_WINDOW_MS, max |-> e.RATE_LIMIT_MAX_REQUESTS,
   prefix |-> "api", keyBy |-> "ip", skipInTest |-> FALSE,
   body |-> [success |-> FALSE,
             error |-> "Too many requests from this IP, please try again later.",
             retryAfter |-> (e.RATE_LIMIT_WINDOW_MS + 59999) \div 60000]]

\* keyGenerator: req.headers['x-user-id'] || req.body?.userId, else req.ip
keyGenerator(cfg, q) ==
  IF cfg.keyBy = "user" /\ q.userId # NoUser
  THEN <<cfg.prefix, "user", q.userId>>
  ELSE <<cfg.prefix, "ip", q.ip>>

\* the hits a limiter store holds for a key whose window is still open
HitsOf(lim, t, key) ==
  IF key \in DOMAIN lim /\ lim[key].resetTime > t THEN lim[key].hits ELSE 0

\* the store's clean-up: the keys whose window has closed are dropped
Expire(lim, t) == [k \in {x \in DOMAIN lim : lim[x].resetTime > t} |-> lim[k]]

\* a limiter counts the request under its key and lets it pass while the
\* count of the window is within max; the stored count stops at max + 1,
\* beyond which every request is answered alike
rateLimit_AdmitsOneMore(cfg, e, lim, t, key) ==
  IF cfg.skipInTest /\ e.NODE_ENV = "test" THEN [next |-> TRUE, lim |-> lim]
  ELSE LET totalHits == HitsOf(lim, t, key) + 1
           resetTime == IF HitsOf(lim, t, key) = 0 THEN t + cfg.windowMs
                        ELSE lim[key].resetTime
           counted == [hits |-> IF totalHits > cfg.max THEN cfg.max + 1 ELSE totalHits,
                       resetTime |-> resetTime]
       IN [next |-> totalHits <= cfg.max + 1,
           lim |-> [k \in DOMAIN lim \cup {key} |-> IF k = key THEN counted ELSE lim[k]]]

rateLimit(cfg, e, lim, t, key) ==
  IF cfg.skipInTest /\ e.NODE_ENV = "test" THEN [next |-> TRUE, lim |-> lim]
  ELSE LET totalHits == HitsOf(lim, t, key) + 1
           resetTime == IF HitsOf(lim, t, key) = 0 THEN t + cfg.windowMs
                        ELSE lim[key].resetTime
           counted == [hits |-> IF totalHits > cfg.max THEN cfg.max + 1 ELSE totalHits,
                       resetTime |-> resetTime]
       IN [next |-> totalHits <= cfg.max,
           lim |-> [k \in DOMAIN lim \cup {key} |-> IF k = key THEN counted ELSE lim[k]]]

\* router.METHOD(path, serviceAuthMiddleware, handler): h is what the handler
\* does when the request reaches it
Authenticated(e, lim, st, op, q, h) ==
  LET auth == serviceAuthMiddleware(e, op, q.token)
  IN IF ~auth.next THEN [st |-> st, lim |-> lim, res |-> auth.res]
     ELSE [st |-> h.st, lim |-> lim, res |-> h.res]

\* the limiter mounted in front of serviceAuthMiddleware
AuthenticatedAndLimited_LimiterFirst(e, lim, st, t, op, cfg, q, h) ==
  LET auth == serviceAuthMiddleware(e, op, q.token)
      limited == rateLimit(cfg, e, lim, t, keyGenerator(cfg, q))
  IN IF ~limited.next
     THEN [st |-> st, lim |-> limited.lim, res |-> Reply(op, 429, cfg.body, FALSE, 0)]
     ELSE IF ~auth.next THEN [st |-> st, lim |-> limited.lim, res |-> auth.res]
     ELSE [st |-> h.st, lim |-> limited.lim, res |-> h.res]

\* router.post(path, serviceAuthMiddleware, <limiter>, handler)
AuthenticatedAndLimited(e, lim, st, t, op, cfg, q, h) ==
  LET auth == serviceAuthMiddleware(e, op, q.token)
      limited == rateLimit(cfg, e, lim, t, keyGenerator(cfg, q))
  IN IF ~auth.next THEN [st |-> st, lim |-> lim, res |-> auth.res]
     ELSE IF ~limited.next
     THEN [st |-> st, lim |-> limited.lim, res |-> Reply(op, 429, cfg.body, FALSE, 0)]
     ELSE [st |-> h.st, lim |-> limited.lim, res |-> h.res]

\* GET /features: no middleware; the flags are those of the environment
FeaturesHandler(st) ==
  [st |-> st, res |-> Reply("features", 200,
     [success |-> TRUE, features |-> "FEATURES",
      message |-> "Available verification features"], FALSE, 0)]

InitiateRoute(e, lim, st, t, q, reply) ==
  AuthenticatedAndLimited(e, lim, st, t, "initiate", otpGenerationLimiter, q,
     InitiateHandler(st, t, q.userId, q.aadhaarNumber, q.consentGiven, reply))

VerifyRoute(e, lim, st, t, q, reply) ==
  AuthenticatedAndLimited(e, lim, st, t, "verify", otpVerificationLimiter, q,
     VerifyHandler(st, t, q.userId, q.refId, q.otp, reply))

ResendRoute(e, lim, st, t, q, reply) ==
  AuthenticatedAndLimited(e, lim, st, t, "resend", otpResendLimiter, q,
     ResendHandler(st, t, q.userId, q.refId, reply))

StatusRoute(e, lim, st, t, q) ==
  Authenticated(e, lim, st, "status", q, StatusHandler(st, t, q.userId))

BadgeRoute(e, lim, st, t, q) ==
  Authenticated(e, lim, st, "badge", q, BadgeHandler(st, t, q.userId))

FeaturesRoute(e, lim, st, t, q) ==
  [st |-> st, lim |-> lim, res |-> FeaturesHandler(st).res]

\* the steps of the 15-minute clock of the limiter specifications
WindowStep == 900000
MaxWindowTicks == 4

\* the document a completed Initiate of u1 at time 0 leaves behind
PendingDocument ==
  CreateDocument(verificationData("u1", "21637861", RawAadhaar, 0))

\* the service as it starts, in either NODE_ENV: the limiter stores, which
\* live in the memory of the process, are empty, and the collection is
\* empty or holds the pending document of an earlier run
InitApi ==
  /\ store \in {<<>>, <<PendingDocument>>}
  /\ now = 0
  /\ res = Reply("none", 0, [success |-> TRUE], FALSE, 0)
  /\ limits = NoHits
  /\ \E mode \in NodeEnvs :
        env = [NODE_ENV |-> mode, SERVICE_AUTH_TOKEN |-> ServiceToken,
               RATE_LIMIT_WINDOW_MS |-> RateLimitWindowMs,
               RATE_LIMIT_MAX_REQUESTS |-> RateLimitMaxRequests]
  /\ arg = Undefined
  /\ out = Undefined
  /\ call = NoCall
  /\ inflight = NoRequests

\* the client works on one limiter window at a time: it sends a request
\* that a limiter counts only when no window is open under another key
Sendable(cfg, q) == DOMAIN Expire(limits, now) \subseteq {keyGenerator(cfg, q)}

ApiInitiate(q, reply) ==
  LET r == InitiateRoute(env, limits, store, now, q, reply)
  IN /\ Sendable(otpGenerationLimiter, q)
     /\ store' = r.st
     /\ limits' = r.lim
     /\ res' = r.res
     /\ UNCHANGED <<now, env, fn>>

ApiVerifyOtp(q, reply) ==
  LET r == VerifyRoute(env, limits, store, now, q, reply)
  IN /\ Sendable(otpVerificationLimiter, q)
     /\ store' = r.st
     /\ limits' = r.lim
     /\ res' = r.res
     /\ UNCHANGED <<now, env, fn>>

ApiResend(q, reply) ==
  LET r == ResendRoute(env, limits, store, now, q, reply)
  IN /\ Sendable(otpResendLimiter, q)
     /\ store' = r.st
     /\ limits' = r.lim
     /\ res' = r.res
     /\ UNCHANGED <<now, env, fn>>

ApiGetStatus(q) ==
  LET r == StatusRoute(env, limits, store, now, q)
  IN /\ store' = r.st
     /\ limits' = r.lim
     /\ res' = r.res
     /\ UNCHANGED <<now, env, fn>>

ApiGetBadge(q) ==
  LET r == BadgeRoute(env, limits, store, now, q)
  IN /\ store' = r.st
     /\ limits' = r.lim
     /\ res' = r.res
     /\ UNCHANGED <<now, env, fn>>

ApiGetFeatures(q) ==
  LET r == FeaturesRoute(env, limits, store, now, q)
  IN /\ store' = r.st
     /\ limits' = r.lim
     /\ res' = r.res
     /\ UNCHANGED <<now, env, fn>>

\* 15 minutes pass; the limiter stores drop the windows that closed
TickWindow ==
  /\ now \div WindowStep < MaxWindowTicks
  /\ now' = now + WindowStep
  /\ limits' = Expire(limits, now')
  /\ UNCHANGED <<store, res, env, fn>>

\* the requests of the limiter specification: every token with a valid
\* body, and with the service token an identified and an anonymous caller
Callers == [token : Tokens, ip : Ips, userId : Users]
             \cup [token : {ServiceToken}, ip : Ips, userId : {NoUser}]

With(q, name, val) == [k \in DOMAIN q \cup {name} |-> IF k = name THEN val ELSE q[k]]

ApiInitiateRequests ==
  {With(With(q, "aadhaarNumber", Str(RawAadhaar)), "consentGiven", Bool(TRUE)) : q \in Callers}

ApiVerifyRequests ==
  {With(With(q, "refId", r), "otp", Str(TestOtp)) : q \in Callers, r \in {"21637861"}}

ApiResendRequests == {With(q, "refId", NoRef) : q \in Callers}

ApiReadRequests == [token : Tokens, ip : Ips, userId : Users]

NextApi ==
  \/ \E q \in ApiInitiateRequests :
        \E reply \in OtpRepliesTo(q.userId, q.aadhaarNumber, q.consentGiven) :
           ApiInitiate(q, reply)
  \/ \E q \in ApiVerifyRequests :
        \E reply \in VerifyRepliesTo(q.userId, q.refId, q.otp) :
           ApiVerifyOtp(q, reply)
  \/ \E q \in ApiResendRequests :
        \E reply \in ResendRepliesTo(q.userId, q.refId) :
           ApiResend(q, reply)
  \/ \E q \in ApiReadRequests : ApiGetStatus(q)
  \/ \E q \in ApiReadRequests : ApiGetBadge(q)
  \/ \E q \in ApiReadRequests : ApiGetFeatures(q)
  \/ TickWindow

SpecApi == InitApi /\ [][NextApi]_vars

\* app.use('/api/', limiter) in front of the router, seen by a client that
\* polls GET /features
AppGetFeatures(q) ==
  LET cfg == limiter(env)
      limited == rateLimit(cfg, env, limits, now, keyGenerator(cfg, q))
      r == FeaturesRoute(env, limited.lim, store, now, q)
  IN /\ store' = store
     /\ limits' = limited.lim
     /\ res' = IF limited.next THEN r.res
               ELSE Reply("features", 429, cfg.body, FALSE, 0)
     /\ UNCHANGED <<now, env, fn>>

NextApp ==
  \/ \E q \in ApiReadRequests : AppGetFeatures(q)
  \/ TickWindow

SpecApp == InitApi /\ [][NextApp]_vars

(***************************************************************************)
(* utils/errorHandler.js                                                   *)
(***************************************************************************)
\* the failures axios reports: a response with a status outside 2xx, or no
\* response and the code of the socket or timer that failed ("" = no code)
HttpStatuses == {302, 400, 401, 403, 404, 409, 422, 429, 499, 500, 502, 503, 504}
FailureCodes == {"", "ECONNABORTED", "ETIMEDOUT", "ENOTFOUND", "ECONNREFUSED",
                 "ECONNRESET", "ERR_BAD_RESPONSE"}

HttpFailure(status, code, message) ==
  [hasResponse |-> TRUE, status |-> status, code |-> code, message |-> message]
NoResponseFailure(code, message) ==
  [hasResponse |-> FALSE, status |-> 0, code |-> code, message |-> message]

Failures ==
  {HttpFailure(s, c, msg) : s \in HttpStatuses, c \in {"", "ERR_BAD_RESPONSE"},
                            msg \in {"", "Server error"}}
    \cup {NoResponseFailure(c, "connect failed") : c \in FailureCodes}

APIError(message, code, statusCode, isRetryable) ==
  [name |-> "APIError", message |-> message, code |-> code,
   statusCode |-> statusCode, isRetryable |-> isRetryable]

\* message || fallback
Or(message, fallback) == IF message # "" THEN message ELSE fallback

categorizeError_RateLimitIsFinal(error) ==
  IF error.hasResponse /\ error.status >= 500
  THEN APIError(Or(error.message, "Service temporarily unavailable"),
                "SERVICE_UNAVAILABLE", error.status, TRUE)
  ELSE IF error.hasResponse /\ error.status = 429
  THEN APIError("Rate limit exceeded. Please try again later.",
                "RATE_LIMIT_EXCEEDED", error.status, FALSE)
  ELSE IF error.hasResponse /\ error.status \in {401, 403}
  THEN APIError(Or(error.message, "Authentication failed"),
                "AUTHENTICATION_ERROR", error.status, FALSE)
  ELSE IF error.hasResponse /\ error.status = 404
  THEN APIError(Or(error.message, "Resource not found"), "NOT_FOUND", error.status, FALSE)
  ELSE IF error.hasResponse /\ error.status >= 400 /\ error.status < 500
  THEN APIError(Or(error.message, "Invalid request"), "INVALID_INPUT", error.status, FALSE)
  ELSE IF error.code \in {"ECONNABORTED", "ETIMEDOUT"}
  THEN APIError("Request timeout. Please try again.", "TIMEOUT_ERROR", 408, TRUE)
  ELSE IF error.code \in {"ENOTFOUND", "ECONNREFUSED"}
  THEN APIError("Network error. Please check your connection.", "NETWORK_ERROR", 503, TRUE)
  ELSE APIError(Or(error.message, "An unexpected error occurred"), "UNKNOWN_ERROR", 500, FALSE)

\* categorizeError(error): by the status of the response when there is one,
\* else by error.code
categorizeError(error) ==
  IF error.hasResponse /\ error.status >= 500
  THEN APIError(Or(error.message, "Service temporarily unavailable"),
                "SERVICE_UNAVAILABLE", error.status, TRUE)
  ELSE IF error.hasResponse /\ error.status = 429
  THEN APIError("Rate limit exceeded. Please try again later.",
                "RATE_LIMIT_EXCEEDED", error.status, TRUE)
  ELSE IF error.hasResponse /\ error.status \in {401, 403}
  THEN APIError(Or(error.message, "Authentication failed"),
                "AUTHENTICATION_ERROR", error.status, FALSE)
  ELSE IF error.hasResponse /\ error.status = 404
  THEN APIError(Or(error.message, "Resource not found"), "NOT_FOUND", error.status, FALSE)
  ELSE IF error.hasResponse /\ error.status = 400
  THEN APIError(Or(error.message, "Invalid request"), "INVALID_INPUT", error.status, FALSE)
  ELSE IF error.hasResponse /\ error.status >= 400 /\ error.status < 500
  THEN APIError(error.message, "INVALID_INPUT", error.status, FALSE)
  ELSE IF error.code \in {"ECONNABORTED", "ETIMEDOUT"}
  THEN APIError("Request timeout. Please try again.", "TIMEOUT_ERROR", 408, TRUE)
  ELSE IF error.code \in {"ENOTFOUND", "ECONNREFUSED"}
  THEN APIError("Network error. Please check your connection.", "NETWORK_ERROR", 503, TRUE)
  ELSE APIError(Or(error.message, "An unexpected error occurred"), "UNKNOWN_ERROR", 500, FALSE)

(***************************************************************************)
(* The functions of utils/validation.js, called on their own               *)
(***************************************************************************)
\* the longest run of digits among the arguments
MaxInputDigits == 13

\* n digits, those of the test Aadhaar number repeated
DigitsOf(n) == [i \in 1..n |-> RawAadhaar[((i - 1) % Len(RawAadhaar)) + 1]]

\* s with the character c put in after its first i characters
Insert(s, i, c) == SubSeq(s, 1, i) \o <<c>> \o SubSeq(s, i + 1, Len(s))

\* the arguments: digit strings of every length, the longer ones also with
\* one separator, letter or punctuation mark in every position, the number
\* as it is usually written, and values that are not strings
FormatInputs ==
  {Str(DigitsOf(n)) : n \in 0..MaxInputDigits}
    \cup UNION {{Str(Insert(DigitsOf(n), i, c)) :
                    i \in 0..n, c \in {" ", "-", "\t", "a", "."}} :
                 n \in (MaxInputDigits - 3)..MaxInputDigits}
    \cup AadhaarInputs
    \cup {Undefined, Num(RawAadhaar), Bool(TRUE), Bool(FALSE)}

InitFn ==
  /\ store = <<>>
  /\ now = 0
  /\ res = Reply("none", 0, [success |-> TRUE], FALSE, 0)
  /\ limits = NoHits
  /\ env = [NODE_ENV |-> "test", SERVICE_AUTH_TOKEN |-> ServiceToken,
            RATE_LIMIT_WINDOW_MS |-> RateLimitWindowMs,
            RATE_LIMIT_MAX_REQUESTS |-> RateLimitMaxRequests]
  /\ arg \in FormatInputs
  /\ out = Undefined
  /\ call = NoCall
  /\ inflight = NoRequests

\* out = isValidAadhaarFormat(arg)
CallIsValidAadhaarFormat ==
  /\ out' = [fn |-> "isValidAadhaarFormat", v |-> Bool(isValidAadhaarFormat(arg))]
  /\ UNCHANGED <<store, now, res, mw, arg, call, inflight>>

\* maskAadhaar on a JavaScript value: only a string has a length of 12
maskAadhaarOf(x) ==
  IF ~Truthy(x) \/ x.t # "string" THEN Str(MaskPlaceholder)
  ELSE Str(maskAadhaar(x.v))

\* out = maskAadhaar(arg)
CallMaskAadhaar ==
  /\ out' = [fn |-> "maskAadhaar", v |-> maskAadhaarOf(arg)]
  /\ UNCHANGED <<store, now, res, mw, arg, call, inflight>>

\* the codes the callers of errorResponse pass, NoCode when they pass none
ErrorCodes == {NoCode, "TEST_CODE", "OTP_EXPIRED", "RESEND_COOLDOWN", "FEATURE_DISABLED"}

\* out = errorResponse('Test error', 'User message', code), the call of
\* test-production-features.js, for every code
CallErrorResponse ==
  /\ \E code \in ErrorCodes :
        out' = [fn |-> "errorResponse", code |-> code,
                v |-> errorResponse("Test error", "User message", code)]
  /\ UNCHANGED <<store, now, res, mw, arg, call, inflight>>

\* out = categorizeError(error), for every failure
CallCategorizeError ==
  /\ \E error \in Failures :
        out' = [fn |-> "categorizeError", error |-> error, v |-> categorizeError(error)]
  /\ UNCHANGED <<store, now, res, mw, arg, call, inflight>>

NextFn ==
  \/ CallIsValidAadhaarFormat
  \/ CallMaskAadhaar
  \/ CallErrorResponse
  \/ CallCategorizeError

SpecFn == InitFn /\ [][NextFn]_vars

(***************************************************************************)
(* services/providers/CashfreeProvider.js inside retryWithBackoff          *)
(***************************************************************************)
\* the option values a caller of retryWithBackoff may pass
MaxRetriesOption == 4
MaxDelayOption == 3
MaxMultiplierOption == 3

\* the defaults of retryWithBackoff the provider leaves alone
DefaultMaxDelay == 10000
DefaultBackoffMultiplier == 2

RetryOptions(maxRetries, initialDelay) ==
  [maxRetries |-> maxRetries, initialDelay |-> initialDelay,
   maxDelay |-> DefaultMaxDelay, backoffMultiplier |-> DefaultBackoffMultiplier]

\* the options each provider method passes
ProviderOptions ==
  [generateAadhaarOTP |-> RetryOptions(3, 1000),
   verifyAadhaarOTP |-> RetryOptions(2, 500),
   resendAadhaarOTP |-> RetryOptions(3, 1000)]

\* every combination of small options, for a function wrapped directly
AnyOptions ==
  [maxRetries : 1..MaxRetriesOption, initialDelay : 1..MaxDelayOption,
   maxDelay : 1..MaxDelayOption, backoffMultiplier : 1..MaxMultiplierOption]

RECURSIVE toLowerCase(_)
\* String.prototype.toLowerCase, for the letters the messages hold
toLowerCase(s) ==
  IF s = "" THEN ""
  ELSE (CASE Head(s) = "O" -> "o" [] Head(s) = "T" -> "t" [] Head(s) = "P" -> "p"
          [] Head(s) = "R" -> "r" [] OTHER -> Head(s)) \o toLowerCase(Tail(s))

\* String.prototype.includes
Includes(s, part) ==
  \E i \in 1..(Len(s) - Len(part) + 1) : SubSeq(s, i, i + Len(part) - 1) = part

RECURSIVE StripNonDigits(_)
\* s.replace(/\D/g, '')
StripNonDigits(s) ==
  IF s = "" THEN ""
  ELSE (IF Head(s) \in Digit THEN Head(s) ELSE "") \o StripNonDigits(Tail(s))

RECURSIVE IsDigits(_)
IsDigits(s) == s = "" \/ (Head(s) \in Digit /\ IsDigits(Tail(s)))

\* isNaN(refId) for the references of the model: digit strings and strings
\* that hold letters
isNaN(s) == ~IsDigits(s)

\* the messages a 409 of the provider carries ("" = none)
ConflictMessages ==
  {"", "OTP already generated",
   "Otp generated for this aadhaar, please try after 10 minutes"}

\* what the HTTP request of one invocation ends in: a 2xx body, with or
\* without ref_id and with the status of a verification, or a failure, a
\* 409 carrying the message and possibly the ref_id of the earlier OTP
Ok(ref_id, status) ==
  [kind |-> "ok", ref_id |-> ref_id, status |-> status,
   error |-> NoResponseFailure("", "")]
Failed(error, ref_id) ==
  [kind |-> "failed", ref_id |-> ref_id, status |-> "", error |-> error]

RequestOutcomes ==
  {Ok(r, s) : r \in {"21637861", NoRef}, s \in {"VALID", "INVALID"}}
    \cup {Failed(HttpFailure(s, "ERR_BAD_RESPONSE", ""), NoRef) : s \in {400, 401, 404, 429, 500, 503}}
    \cup {Failed(HttpFailure(409, "ERR_BAD_REQUEST", msg), r) :
            msg \in ConflictMessages, r \in {NoRef, "21637861", "REUSED_21637861"}}
    \cup {Failed(NoResponseFailure(c, "connect failed"), NoRef) :
            c \in {"ECONNABORTED", "ETIMEDOUT", "ENOTFOUND", "ECONNREFUSED"}}

Returns(value) == [thrown |-> FALSE, value |-> value, error |-> NoResponseFailure("", "")]
Throws(error) == [thrown |-> TRUE, value |-> [success |-> FALSE], error |-> error]

\* the catch block the three provider methods share: an error with a
\* response is thrown on as it is, any other as new Error(errorMessage)
Rethrow(error) ==
  IF error.hasResponse THEN Throws(error)
  ELSE Throws(NoResponseFailure("", error.message))

\* the function generateAadhaarOTP wraps
GenerateOnce(sandbox, t, o) ==
  IF o.kind = "ok"
  THEN IF o.ref_id # NoRef
       THEN Returns([success |-> TRUE, refId |-> o.ref_id])
       ELSE Rethrow(NoResponseFailure("", "Invalid response from Cashfree API"))
  ELSE IF sandbox /\ o.error.hasResponse /\ o.error.status = 409
          /\ Includes(toLowerCase(o.error.message), "otp generated")
  THEN LET refId == IF o.ref_id = NoRef \/ isNaN(o.ref_id) THEN ToString(t) ELSE o.ref_id
       IN Returns([success |-> TRUE, refId |-> StripNonDigits(refId)])
  ELSE Rethrow(o.error)

\* the function verifyAadhaarOTP wraps
VerifyOnce(sandbox, t, o) ==
  IF o.kind = "ok"
  THEN IF o.status \in {"VALID", "SUCCESS"}
       THEN Returns([success |-> TRUE, refId |-> o.ref_id])
       ELSE Returns([success |-> FALSE, refId |-> o.ref_id])
  ELSE Rethrow(o.error)

\* the function resendAadhaarOTP wraps
ResendOnce(sandbox, t, o) ==
  IF o.kind = "ok"
  THEN IF o.ref_id # NoRef
       THEN Returns([success |-> TRUE, refId |-> o.ref_id])
       ELSE Rethrow(NoResponseFailure("", "Invalid response from Cashfree API"))
  ELSE Rethrow(o.error)

\* a function that lets the failure of its request through
PlainOnce(sandbox, t, o) ==
  IF o.kind = "ok" THEN Returns([success |-> TRUE, refId |-> o.ref_id])
  ELSE Throws(o.error)

Wrapped(op, sandbox, t, o) ==
  CASE op = "generateAadhaarOTP" -> GenerateOnce(sandbox, t, o)
    [] op = "verifyAadhaarOTP" -> VerifyOnce(sandbox, t, o)
    [] op = "resendAadhaarOTP" -> ResendOnce(sandbox, t, o)
    [] OTHER -> PlainOnce(sandbox, t, o)

(***************************************************************************)
(* retryWithBackoff (utils/errorHandler.js) as a loop over call            *)
(***************************************************************************)
ProviderOps == {"generateAadhaarOTP", "verifyAadhaarOTP", "resendAadhaarOTP"}

Min(a, b) == IF a < b THEN a ELSE b

\* Math.min(delay * backoffMultiplier, maxDelay), the delay of the next wait
nextDelay(delay, options) == Min(delay * options.backoffMultiplier, options.maxDelay)

\* shouldRetry(categorized), by default error.isRetryable
shouldRetry(categorized) == categorized.isRetryable

\* entry: attempt = 0, delay = initialDelay
Enter(op, sandbox, options) ==
  [pc |-> "calling", op |-> op, sandbox |-> sandbox, options |-> options,
   attempt |-> 0, delay |-> options.initialDelay, calls |-> 0, waits |-> <<>>,
   request |-> Ok(NoRef, ""), settled |-> Returns([success |-> FALSE])]

\* a provider method is called: it wraps its request with its own options
StartProvider ==
  /\ call.pc = "idle"
  /\ \E op \in ProviderOps, sandbox \in BOOLEAN :
       call' = Enter(op, sandbox, ProviderOptions[op])
  /\ UNCHANGED <<store, now, res, mw, arg, out, inflight>>

\* retryWithBackoff is called on a function with options of the caller
StartPlain ==
  /\ call.pc = "idle"
  /\ \E options \in AnyOptions : call' = Enter("fn", FALSE, options)
  /\ UNCHANGED <<store, now, res, mw, arg, out, inflight>>

\* one pass of the loop body up to the sleep: await fn(), and in the catch
\* block categorizeError, the test of the last attempt and of shouldRetry
Invoke_NoCeiling(c, t, o) ==
  LET r == Wrapped(c.op, c.sandbox, t, o)
      categorized == categorizeError(r.error)
  IN IF ~r.thrown
     THEN [c EXCEPT !.pc = "returned", !.calls = @ + 1, !.request = o, !.settled = r]
     ELSE IF ~shouldRetry(categorized)
     THEN [c EXCEPT !.pc = "thrown", !.calls = @ + 1, !.request = o,
                    !.settled = Throws(categorized)]
     ELSE [c EXCEPT !.pc = "sleeping", !.calls = @ + 1, !.request = o]
\* Invoke that throws the error as it caught it
Invoke_ThrowsRaw(c, t, o) ==
  LET r == Wrapped(c.op, c.sandbox, t, o)
      categorized == categorizeError(r.error)
      isLastAttempt == c.attempt = c.options.maxRetries - 1
  IN IF ~r.thrown
     THEN [c EXCEPT !.pc = "returned", !.calls = @ + 1, !.request = o, !.settled = r]
     ELSE IF isLastAttempt \/ ~shouldRetry(categorized)
     THEN [c EXCEPT !.pc = "thrown", !.calls = @ + 1, !.request = o,
                    !.settled = Throws(r.error)]
     ELSE [c EXCEPT !.pc = "sleeping", !.calls = @ + 1, !.request = o]

Invoke(c, t, o) ==
  LET r == Wrapped(c.op, c.sandbox, t, o)
      categorized == categorizeError(r.error)
      isLastAttempt == c.attempt = c.options.maxRetries - 1
  IN IF ~r.thrown
     THEN [c EXCEPT !.pc = "returned", !.calls = @ + 1, !.request = o, !.settled = r]
     ELSE IF isLastAttempt \/ ~shouldRetry(categorized)
     THEN [c EXCEPT !.pc = "thrown", !.calls = @ + 1, !.request = o,
                    !.settled = Throws(categorized)]
     ELSE [c EXCEPT !.pc = "sleeping", !.calls = @ + 1, !.request = o]

\* only a 409 carries a message and a ref_id into a plain function's model
PlainOutcomes ==
  {o \in RequestOutcomes : o.kind = "ok" => (o.status = "VALID" /\ o.ref_id # NoRef)}

Attempt ==
  /\ call.pc = "calling"
  /\ \E o \in (IF call.op = "fn" THEN PlainOutcomes ELSE RequestOutcomes) :
       call' = Invoke(call, now, o)
  /\ UNCHANGED <<store, now, res, mw, arg, out, inflight>>

\* await sleep(delay); delay = Math.min(delay * backoffMultiplier, maxDelay);
\* attempt++
Sleep ==
  /\ call.pc = "sleeping"
  /\ call' = [call EXCEPT !.pc = "calling", !.attempt = @ + 1,
                          !.waits = Append(@, call.delay),
                          !.delay = nextDelay(call.delay, call.options)]
  /\ now' = now + call.delay
  /\ UNCHANGED <<store, res, mw, arg, out, inflight>>

InitProvider ==
  /\ store = <<>>
  /\ now = 0
  /\ res = Reply("none", 0, [success |-> TRUE], FALSE, 0)
  /\ limits = NoHits
  /\ env = [NODE_ENV |-> "test", SERVICE_AUTH_TOKEN |-> ServiceToken,
            RATE_LIMIT_WINDOW_MS |-> RateLimitWindowMs,
            RATE_LIMIT_MAX_REQUESTS |-> RateLimitMaxRequests]
  /\ arg = Undefined
  /\ out = Undefined
  /\ call = NoCall
  /\ inflight = NoRequests

NextProvider == StartProvider \/ StartPlain \/ Attempt \/ Sleep

SpecProvider == InitProvider /\ [][NextProvider]_vars

\* every invocation of the wrapped function returns or throws (the requests
\* carry a timeout) and every sleep ends
SpecProviderLive == SpecProvider /\ WF_vars(Attempt) /\ WF_vars(Sleep)

(***************************************************************************)
(* POST /aadhaar/verify as the event loop runs it: the handler gives way   *)
(* at await findOne, at await verifyAadhaarOTP and at await save, and      *)
(* other requests run in between                                           *)
(***************************************************************************)
\* verification.save() with the increment done by the database ($inc)
SaveModified_Increments(current, loaded, doc) ==
  [f \in DOMAIN current |->
     IF f = "otpAttempts" /\ doc[f] # loaded[f] THEN current[f] + (doc[f] - loaded[f])
     ELSE IF doc[f] # loaded[f] THEN doc[f] ELSE current[f]]

\* verification.save() of a loaded document: the paths the handler changed
\* are $set to their new values, every other path is left as the database
\* has it
SaveModified(current, loaded, doc) ==
  [f \in DOMAIN current |-> IF doc[f] # loaded[f] THEN doc[f] ELSE current[f]]

\* requests that pass validation
RacingVerifyRequests ==
  [userId : Users, refId : {"21637861"}, otp : {Str(TestOtp), Str(<<"0","0","0","1","1","1">>)}]

Idle(p) == inflight[p].pc \in {"idle", "done"}

\* a request arrives and runs up to await cashfreeService.verifyAadhaarOTP:
\* validation, findOne and the checks of the loaded document; a request that
\* a check turns down is answered at once
VerifyLoad(p, q) ==
  LET r == VerifyHandler(store, now, q.userId, q.refId, q.otp, FailedVerifyRequest)
      i == r.res.target
  IN /\ Idle(p)
     /\ IF r.res.upstream
        THEN /\ inflight' = [inflight EXCEPT ![p] = [pc |-> "upstream", q |-> q, i |-> i,
                                                   loaded |-> store[i], counted |-> FALSE,
                                                   answered |-> inflight[p].answered]]
             /\ UNCHANGED <<store, res>>
        ELSE /\ store' = r.st
             /\ Respond(r.res)
             /\ inflight' = inflight
     /\ UNCHANGED <<now, mw, arg, out, call>>

\* the provider has answered: the handler goes on with the document it
\* loaded, saves it and responds
VerifySave(p, reply) ==
  LET c == inflight[p]
      snapshot == [store EXCEPT ![c.i] = c.loaded]
      r == VerifyHandler(snapshot, now, c.q.userId, c.q.refId, c.q.otp, reply)
  IN /\ store' = [store EXCEPT ![c.i] = SaveModified(store[c.i], c.loaded, r.st[c.i])]
     /\ Respond(r.res)
     /\ inflight' = [inflight EXCEPT ![p].pc = "done",
                                     ![p].counted = r.st[c.i].otpAttempts = c.loaded.otpAttempts + 1,
                                     ![p].answered = IF reply.kind = "body" THEN @ + 1 ELSE @]
     /\ UNCHANGED <<now, mw, arg, out, call>>

InitRace ==
  /\ store = <<PendingDocument>>
  /\ now = 0
  /\ res = Reply("none", 0, [success |-> TRUE], FALSE, 0)
  /\ limits = NoHits
  /\ env = [NODE_ENV |-> "test", SERVICE_AUTH_TOKEN |-> ServiceToken,
            RATE_LIMIT_WINDOW_MS |-> RateLimitWindowMs,
            RATE_LIMIT_MAX_REQUESTS |-> RateLimitMaxRequests]
  /\ arg = Undefined
  /\ out = Undefined
  /\ call = NoCall
  /\ inflight = NoRequests

NextRace ==
  \/ \E p \in Requests, q \in RacingVerifyRequests : VerifyLoad(p, q)
  \/ \E p \in Requests :
       /\ inflight[p].pc = "upstream"
       /\ \E reply \in UpstreamVerifyReplies(inflight[p].q.otp.v) : VerifySave(p, reply)

SpecRace == InitRace /\ [][NextRace]_vars

(***************************************************************************)
(* POST /aadhaar/initiate as the event loop runs it: the handler gives way *)
(* at await findByUserId, at await generateAadhaarOTP and at await save    *)
(***************************************************************************)
\* a request arrives and runs up to await cashfreeService.generateAadhaarOTP
InitiateLoad(p, u) ==
  LET r == InitiateHandler(store, now, u, Str(RawAadhaar), Bool(TRUE), FailedRequest)
      i == findByUserId(store, u)
  IN /\ Idle(p)
     /\ IF r.res.upstream
        THEN /\ inflight' = [inflight EXCEPT ![p] =
                               [pc |-> "generating", u |-> u, i |-> i,
                                loaded |-> IF i = 0 THEN NullData ELSE store[i],
                                answered |-> 0]]
             /\ UNCHANGED <<store, res>>
        ELSE /\ store' = r.st
             /\ Respond(r.res)
             /\ inflight' = inflight
     /\ UNCHANGED <<now, mw, arg, out, call>>

\* the provider has answered: the handler saves the document it loaded, or
\* creates one when it had found none, and responds
InitiateSave(p, reply) ==
  LET c == inflight[p]
      snapshot == IF c.i = 0 THEN <<>> ELSE [store EXCEPT ![c.i] = c.loaded]
      r == InitiateHandler(snapshot, now, c.u, Str(RawAadhaar), Bool(TRUE), reply)
  IN /\ IF c.i # 0
        THEN /\ store' = [store EXCEPT ![c.i] = SaveModified(store[c.i], c.loaded, r.st[c.i])]
             /\ Respond(r.res)
        ELSE IF r.st # <<>>
        THEN /\ store' = Append(store, r.st[1])
             /\ Respond([r.res EXCEPT !.target = Len(store) + 1])
        ELSE /\ store' = store
             /\ Respond(r.res)
     /\ inflight' = [inflight EXCEPT ![p].pc = "done"]
     /\ UNCHANGED <<now, mw, arg, out, call>>

NextInitiateRace ==
  \/ \E p \in Requests, u \in Users : InitiateLoad(p, u)
  \/ \E p \in Requests :
       /\ inflight[p].pc = "generating"
       /\ \E reply \in UpstreamOtpReplies \cup {FailedRequest} : InitiateSave(p, reply)

SpecInitiateRace == Init /\ [][NextInitiateRace]_vars

(***************************************************************************)
(* Properties                                                              *)
(***************************************************************************)
\* a step in which the handler of route op served a request
HandlerStep(op) == res'.seq # res.seq /\ res'.op = op

Docs == 1..Len(store)

\* C1: in every reachable state the otpAttempts of every stored document is
\* in 0..3.
C1_OtpAttemptsInRange ==
  \A i \in Docs : store[i].otpAttempts \in 0..3

\* C1 witness: a document at the ceiling of 3 on which a further VerifyOtp
\* was served and refused for its attempts
C1_Witness ==
  /\ res.op = "verify" /\ res.target \in Docs
  /\ store[res.target].otpAttempts = 3
  /\ ErrorOf(res.body) = "Maximum OTP attempts exceeded"

C3_RoundTrip ==
  [][/\ (res.op = "initiate" /\ res.status = 200 /\ HandlerStep("verify"))
          => \A q \in VerifyRequests : \A reply \in UpstreamVerifyReplies(q.otp.v) :
               ( /\ VerifyOtp(q.userId, q.refId, q.otp, reply)
                 /\ q.userId = store[res.target].userId
                 /\ q.refId = store[res.target].refId
                 /\ q.otp = Str(TestOtp)
                 /\ reply.kind = "body" /\ reply.status = "VALID"
                 /\ now <= store[res.target].otpExpiresAt )
               => store'[res.target].status = "verified"
     /\ (HandlerStep("initiate") /\ res'.target \in Docs
           /\ store[res'.target].status = "verified")
          => ( /\ res'.status = 400
               /\ ErrorOf(res'.body) = "User is already verified"
               /\ ~res'.upstream
               /\ store' = store )]_vars

\* C4: a VerifyOtp that gets a failure result from the provider on a document
\* with two failures counted leaves it failed, and a VerifyOtp on a document
\* that is failed or has 3 attempts counted is refused with 400 without a
\* call to the provider.
C4_ThirdFailureThenRefused ==
  [][(HandlerStep("verify") /\ res'.target \in Docs) =>
       LET i == res'.target IN
       /\ (res'.upstream /\ res'.status = 400 /\ store[i].otpAttempts = 2)
            => (store'[i].status = "failed" /\ store'[i].otpAttempts = 3)
       /\ (store[i].status = "failed" \/ store[i].otpAttempts >= 3)
            => ( /\ ~res'.upstream
                 /\ res'.status = 400
                 /\ ~res'.body.success
                 /\ store'[i].status # "verified" ) ]_vars

\* C4 witness: the fourth VerifyOtp, refused without a provider call on a
\* document that three failures left failed
C4_Witness ==
  /\ res.op = "verify" /\ res.target \in Docs
  /\ ~res.upstream /\ res.status = 400
  /\ store[res.target].status = "failed"
  /\ store[res.target].otpAttempts = 3
  /\ now <= store[res.target].otpExpiresAt

\* C5 as stated: a VerifyOtp on an otp_sent document after otpExpiresAt
\* answers with code OTP_EXPIRED, calls no provider and leaves the collection
\* as it was.
C5_ExpiredOtpRefused ==
  [][(HandlerStep("verify") /\ res'.target \in Docs
        /\ store[res'.target].status = "otp_sent"
        /\ now > store[res'.target].otpExpiresAt)
       => ( /\ CodeOf(res'.body) = "OTP_EXPIRED"
            /\ ~res'.upstream
            /\ store' = store )]_vars

\* the provider returned a failure result to the VerifyOtp of this step
VerifyFailureResult ==
  HandlerStep("verify") /\ res'.upstream /\ res'.status = 400 /\ res'.target \in Docs

\* C6 as stated: a failure result that leaves fewer than 3 attempts used
\* answers success:false, keeps status otp_sent and adds exactly 1 to
\* otpAttempts; VerifyOtp makes a document failed only with 3 attempts used.
C6_FailureKeepsOtpSent ==
  [][/\ (VerifyFailureResult /\ store[res'.target].otpAttempts + 1 < 3)
          => ( /\ ~res'.body.success
               /\ store'[res'.target].status = "otp_sent"
               /\ store'[res'.target].otpAttempts = store[res'.target].otpAttempts + 1 )
     /\ (HandlerStep("verify") /\ res'.target \in Docs
           /\ store[res'.target].status = "otp_sent"
           /\ store'[res'.target].status = "failed")
          => store'[res'.target].otpAttempts >= 3]_vars

\* C6 amended: a failure result that leaves fewer than 3 attempts used
\* answers success:false and adds exactly 1 to otpAttempts; the status stays
\* otp_sent when the provider's message contains "OTP" and becomes failed at
\* once for any other message; with 3 attempts used the status is failed.
C6_FailureByMessage ==
  [][VerifyFailureResult =>
       LET i == res'.target IN
       /\ ~res'.body.success
       /\ store'[i].otpAttempts = store[i].otpAttempts + 1
       /\ store'[i].status =
            IF store'[i].otpAttempts >= 3 THEN "failed"
            ELSE IF IncludesOTP(ErrorOf(res'.body)) THEN "otp_sent"
            ELSE "failed"]_vars

\* C6 witness: a failure result with an OTP message left the document
\* otp_sent with one attempt used
C6_Witness ==
  /\ res.op = "verify" /\ res.upstream /\ res.status = 400
  /\ res.target \in Docs
  /\ store[res.target].status = "otp_sent"
  /\ store[res.target].otpAttempts = 1
  /\ IncludesOTP(ErrorOf(res.body))

\* C7 as stated: every VerifyOtp that reaches the provider consumes one
\* attempt unless the provider reports success: success leaves otpAttempts 0,
\* a failure result or a thrown error leaves it one higher.  (The handler
\* counts in the failure branch only, so a thrown provider error ends in the
\* catch block with the counter as it was.)
C7_EveryCallConsumes ==
  [][(HandlerStep("verify") /\ res'.upstream /\ res'.target \in Docs) =>
       LET i == res'.target IN
       store'[i].otpAttempts =
         IF res'.body.success THEN 0 ELSE store[i].otpAttempts + 1]_vars

\* C8 as stated: after a successful Initiate the document it wrote has status
\* otp_sent, otpAttempts 0 and otpExpiresAt = otpSentAt + 10 minutes.
C8_InitiateResetsSession ==
  (res.op = "initiate" /\ res.status = 200) =>
    /\ res.target \in Docs
    /\ store[res.target].status = "otp_sent"
    /\ store[res.target].otpAttempts = 0
    /\ store[res.target].otpExpiresAt = store[res.target].otpSentAt + 10 * 60 * 1000

\* C9 as stated: an Initiate whose OTP generation fails at the provider
\* answers with status 400 and leaves the collection as it was.
C9_GenerationFailureIsClientError ==
  [][(HandlerStep("initiate") /\ res'.upstream /\ ~res'.body.success)
       => (res'.status = 400 /\ store' = store)]_vars

\* the value is a string of exactly n digits once spaces and hyphens are removed
IsDigitString(x, n) ==
  /\ x.t = "string"
  /\ Len(StripSeparators(x.v)) = n
  /\ AllDigits(StripSeparators(x.v))

\* C10 as stated: an Initiate whose identifier is not 12 digits or whose
\* consentGiven is not true, and a VerifyOtp whose otp is not 6 digits, are
\* answered with status 400, call no provider and leave the collection as it
\* was.
C10_ValidationRejects ==
  [][/\ HandlerStep("initiate") =>
          \A q \in InitiateRequests : \A reply \in UpstreamOtpReplies :
            ( /\ Initiate(q.userId, q.aadhaarNumber, q.consentGiven, reply)
              /\ \/ ~IsDigitString(q.aadhaarNumber, 12)
                 \/ q.consentGiven # Bool(TRUE) )
            => (res'.status = 400 /\ ~res'.upstream /\ store' = store)
     /\ HandlerStep("verify") =>
          \A q \in VerifyRequests : \A reply \in UpstreamVerifyReplies(q.otp.v) :
            ( /\ VerifyOtp(q.userId, q.refId, q.otp, reply)
              /\ ~IsDigitString(q.otp, 6) )
            => (res'.status = 400 /\ ~res'.upstream /\ store' = store)]_vars

\* C11 as stated: a Resend on a document that is not verified and whose
\* otpSentAt is less than 60 seconds old is answered 429 with code
\* RESEND_COOLDOWN and a number of seconds to wait in 1..60, calls no provider
\* and leaves the collection as it was.
C11_CooldownRefused ==
  [][(HandlerStep("resend") /\ res'.target \in Docs
        /\ store[res'.target].status # "verified"
        /\ now - store[res'.target].otpSentAt < 60 * 1000)
       => ( /\ res'.status = 429
            /\ CodeOf(res'.body) = "RESEND_COOLDOWN"
            /\ \E n \in 1..60 : res'.body.message = CooldownMessage(n)
            /\ ~res'.upstream
            /\ store' = store )]_vars

StatusTransition(i) ==
  \/ store'[i].status # store[i].status
  \/ /\ HandlerStep("initiate") \/ HandlerStep("resend")
     /\ res'.status = 200 /\ res'.target = i

\* C14 as stated: every status transition of a document adds exactly one
\* entry to its auditLog.
C14_TransitionAppendsAuditEntry ==
  [][\A i \in Docs :
       StatusTransition(i)
         => Len(store'[i].auditLog) = Len(store[i].auditLog) + 1]_vars

\* C15 as stated: the auditLog of a document never gets shorter and every
\* entry it holds stays at its position unchanged.
C15_AuditLogAppendOnly ==
  [][\A i \in Docs :
       /\ Len(store'[i].auditLog) >= Len(store[i].auditLog)
       /\ \A k \in 1..Len(store[i].auditLog) :
            store'[i].auditLog[k] = store[i].auditLog[k]]_vars

\* C16: GetStatus and GetBadge leave the collection as it was; a GetStatus
\* that follows a GetStatus with nothing but the passing of time in between
\* returns the same data; for a user without a document GetStatus returns
\* status not_initiated with isVerified false and GetBadge returns isVerified
\* false with badge null.
C16_ReadsArePure ==
  [][/\ (HandlerStep("status") \/ HandlerStep("badge")) => store' = store
     /\ (HandlerStep("status") /\ res.op = "status")
          => res'.body.data = res.body.data
     /\ (HandlerStep("status") /\ \A i \in Docs : store[i].userId \notin Users)
          => res'.body.data = [status |-> "not_initiated", isVerified |-> FALSE]
     /\ (HandlerStep("badge") /\ \A i \in Docs : store[i].userId \notin Users)
          => res'.body.data = [isVerified |-> FALSE, badge |-> NullData]]_vars

\* C16 witness: a GetStatus served after the OTP of an otp_sent document with
\* an attempt used has lapsed, and the document is as it was
C16_Witness ==
  /\ res.op = "status" /\ res.target \in Docs
  /\ store[res.target].status = "otp_sent"
  /\ store[res.target].otpAttempts = 1
  /\ now > store[res.target].otpExpiresAt
  /\ res.body.data.status = "otp_sent"
  /\ res.body.data.attemptsRemaining = 2

\* the requests a step of the limiter specification serves
InitiateStep(q) ==
  \E reply \in OtpRepliesTo(q.userId, q.aadhaarNumber, q.consentGiven) : ApiInitiate(q, reply)
VerifyStep(q) ==
  \E reply \in VerifyRepliesTo(q.userId, q.refId, q.otp) : ApiVerifyOtp(q, reply)
ResendStep(q) ==
  \E reply \in ResendRepliesTo(q.userId, q.refId) : ApiResend(q, reply)

\* whom a per-user limit counts a request against
Subject(q) == IF q.userId # NoUser THEN <<"user", q.userId>> ELSE <<"ip", q.ip>>

\* the rejection of a rate limiter
Limited(r) == r.status = 429 /\ CodeOf(r.body) = "RATE_LIMIT_EXCEEDED"

\* a step that serves q counts it against its subject while fewer than max
\* requests of the subject were counted in the open window, which ends
\* window ms after its first request, and hands it to the handler; from
\* then on it rejects the request and neither the collection nor the
\* provider sees it
WithinLimit(cfg, max, window, q) ==
  LET key == <<cfg.prefix>> \o Subject(q)
      h == HitsOf(limits, now, key)
  IN /\ h < max =>
          /\ ~Limited(res')
          /\ HitsOf(limits', now, key) = h + 1
          /\ limits'[key].resetTime = IF h = 0 THEN now + window ELSE limits[key].resetTime
     /\ h >= max => Limited(res') /\ ~res'.upstream /\ store' = store
     /\ \A k \in DOMAIN limits \ {key} : k \in DOMAIN limits' /\ limits'[k] = limits[k]

LimitsObeyed ==
  /\ \A q \in ApiInitiateRequests :
        res'.op = "initiate" /\ q.token = ServiceToken /\ InitiateStep(q) =>
           WithinLimit(otpGenerationLimiter, 3, 3600000, q)
  /\ \A q \in ApiResendRequests :
        res'.op = "resend" /\ q.token = ServiceToken /\ ResendStep(q) =>
           WithinLimit(otpResendLimiter, 5, 3600000, q)
  /\ \A q \in ApiVerifyRequests :
        res'.op = "verify" /\ q.token = ServiceToken /\ VerifyStep(q) =>
           WithinLimit(otpVerificationLimiter, 10, 900000, q)

C18_GlobalLimitAnswersWithCode ==
  [][\A q \in ApiReadRequests :
        AppGetFeatures(q) /\ HitsOf(limits, now, <<"api", "ip", q.ip>>) >= 100 =>
           /\ res'.status = 429
           /\ "retryAfter" \in DOMAIN res'.body
           /\ CodeOf(res'.body) = "RATE_LIMIT_EXCEEDED"]_vars

\* what a route answers to a request that fails service authentication
Unauthorized(q) ==
  /\ res'.status = 401
  /\ CodeOf(res'.body) = IF q.token = NoToken THEN "MISSING_SERVICE_AUTH"
                         ELSE "INVALID_SERVICE_AUTH"
  /\ ~res'.upstream
  /\ store' = store /\ limits' = limits

\* C19: every route of the router (initiate, verify, resend, status, badge,
\* features; the stubs are mounted like status) answers a request without
\* the service token 401 MISSING_SERVICE_AUTH and one with a wrong token 401
\* INVALID_SERVICE_AUTH, and its handler does not run.
C19_EveryRouteNeedsToken ==
  [][/\ \A q \in ApiInitiateRequests : InitiateStep(q) /\ q.token # ServiceToken => Unauthorized(q)
     /\ \A q \in ApiVerifyRequests : VerifyStep(q) /\ q.token # ServiceToken => Unauthorized(q)
     /\ \A q \in ApiResendRequests : ResendStep(q) /\ q.token # ServiceToken => Unauthorized(q)
     /\ \A q \in ApiReadRequests :
           (ApiGetStatus(q) \/ ApiGetBadge(q) \/ ApiGetFeatures(q)) /\ q.token # ServiceToken
              => Unauthorized(q)]_vars

\* the function whose result out holds
Returned(f) == "fn" \in DOMAIN out /\ out.fn = f

\* C20 (as claimed): isValidAadhaarFormat(s) is true exactly when s is a
\* string of exactly 12 characters, all of them digits.
C20_TrueForTwelveDigitsOnly ==
  Returned("isValidAadhaarFormat") =>
     (out.v = Bool(TRUE) <=>
        /\ arg.t = "string"
        /\ Len(arg.v) = 12
        /\ \A i \in 1..Len(arg.v) : arg.v[i] \in Digit)

\* C20 (amended): isValidAadhaarFormat(s) is true exactly when s is a string
\* made of digits, whitespace and hyphens only, exactly 12 of its characters
\* being digits.
C20_TrueForTwelveDigitsAndSeparators ==
  Returned("isValidAadhaarFormat") =>
     (out.v = Bool(TRUE) <=>
        /\ arg.t = "string"
        /\ \A i \in 1..Len(arg.v) : arg.v[i] \in Digit \cup {" ", "\t", "-"}
        /\ Cardinality({i \in 1..Len(arg.v) : arg.v[i] \in Digit}) = 12)

\* C20 witness: a written-out number with separators was accepted
C20_Witness ==
  /\ Returned("isValidAadhaarFormat") /\ out.v = Bool(TRUE)
  /\ arg.t = "string" /\ Len(arg.v) > 12

\* C21: maskAadhaar(s) is "XXXX XXXX " followed by the last 4 digits of s when
\* s is a string of 12 digits, and the placeholder "XXXX XXXX XXXX" for every
\* other input (another length, a character that is no digit, empty, missing).
C21_MaskOrPlaceholder ==
  Returned("maskAadhaar") =>
     out.v = IF arg.t = "string" /\ Len(arg.v) = 12 /\ AllDigits(arg.v)
             THEN Str(<<"X","X","X","X"," ","X","X","X","X"," ">>
                        \o <<arg.v[9], arg.v[10], arg.v[11], arg.v[12]>>)
             ELSE Str(<<"X","X","X","X"," ","X","X","X","X"," ","X","X","X","X">>)

\* C22: errorResponse(error, message, code) returns an object with success
\* false whose code field is the code it was given, and without a code field
\* when it was given none.
C22_ErrorResponseCarriesCode ==
  Returned("errorResponse") =>
     /\ out.v.success = FALSE
     /\ IF out.code = NoCode THEN "code" \notin DOMAIN out.v
        ELSE "code" \in DOMAIN out.v /\ out.v.code = out.code

ClaimedCategory(error) ==
  CASE error.hasResponse /\ error.status \in 500..599 -> "SERVICE_UNAVAILABLE"
    [] error.hasResponse /\ error.status = 429 -> "RATE_LIMIT_EXCEEDED"
    [] error.hasResponse /\ error.status \in {401, 403} -> "AUTHENTICATION_ERROR"
    [] error.hasResponse /\ error.status = 404 -> "NOT_FOUND"
    [] error.hasResponse /\ error.status \in (400..499) \ {401, 403, 404, 429} -> "INVALID_INPUT"
    [] ~(error.hasResponse /\ error.status \in 400..599)
         /\ error.code \in {"ECONNABORTED", "ETIMEDOUT"} -> "TIMEOUT_ERROR"
    [] ~(error.hasResponse /\ error.status \in 400..599)
         /\ error.code \in {"ENOTFOUND", "ECONNREFUSED"} -> "NETWORK_ERROR"
    [] OTHER -> "UNKNOWN_ERROR"

\* C30: categorizeError gives every failure the one category of its status
\* (5xx SERVICE_UNAVAILABLE, 429 RATE_LIMIT_EXCEEDED, 401/403
\* AUTHENTICATION_ERROR, 404 NOT_FOUND, other 4xx INVALID_INPUT) or, without
\* such a status, of its code (ECONNABORTED/ETIMEDOUT TIMEOUT_ERROR,
\* ENOTFOUND/ECONNREFUSED NETWORK_ERROR, anything else UNKNOWN_ERROR), and
\* isRetryable is true exactly for SERVICE_UNAVAILABLE, RATE_LIMIT_EXCEEDED,
\* TIMEOUT_ERROR and NETWORK_ERROR.
C30_OneCategoryPerFailure ==
  Returned("categorizeError") =>
     /\ out.v.code = ClaimedCategory(out.error)
     /\ out.v.isRetryable <=>
           out.v.code \in {"SERVICE_UNAVAILABLE", "RATE_LIMIT_EXCEEDED",
                           "TIMEOUT_ERROR", "NETWORK_ERROR"}

\* C30 witness: a rate-limit response was categorized
C30_Witness ==
  /\ Returned("categorizeError")
  /\ out.error.hasResponse /\ out.error.status = 429
  /\ out.v.code = "RATE_LIMIT_EXCEEDED"

\* a call of retryWithBackoff has ended
Settled == call.pc \in {"returned", "thrown"}

\* the last request of the call was answered 409
ConflictAnswered ==
  /\ call.request.kind = "failed"
  /\ call.request.error.hasResponse
  /\ call.request.error.status = 409

\* C24: when the request of generateAadhaarOTP is answered 409 "OTP already
\* generated", the sandbox provider returns success with a non-empty refId of
\* digits only, and the production provider throws (never success).
C24_ConflictReusedInSandboxOnly ==
  (/\ Settled
   /\ call.op = "generateAadhaarOTP"
   /\ ConflictAnswered
   /\ call.request.error.message = "OTP already generated")
    => IF call.sandbox
       THEN /\ call.pc = "returned"
            /\ call.settled.value.success
            /\ call.settled.value.refId # ""
            /\ IsDigits(call.settled.value.refId)
       ELSE call.pc = "thrown"

\* one invocation of the wrapped function has just failed for good
ThrowsNow == call.pc = "calling" /\ call'.pc = "thrown"

\* C27: retryWithBackoff invokes the wrapped function at most maxRetries
\* times (3 for generation and resend, 2 for verification); a failure that is
\* not retryable is thrown by the invocation it happened in, without a wait,
\* as the first invocation's when it is the first; and a call that has
\* returned or thrown invokes nothing more.
C27_CeilingAndNoRetryOfFinalFailures ==
  [][/\ call'.pc # "idle" =>
          /\ call'.calls <= call'.options.maxRetries
          /\ call'.op \in {"generateAadhaarOTP", "resendAadhaarOTP"} => call'.options.maxRetries = 3
          /\ call'.op = "verifyAadhaarOTP" => call'.options.maxRetries = 2
     /\ (ThrowsNow /\ ~call'.settled.error.isRetryable) =>
          /\ call'.calls = call.calls + 1
          /\ call'.waits = call.waits
          /\ now' = now
          /\ call.attempt = 0 => (call'.calls = 1 /\ call'.waits = <<>>)
     /\ Settled => call' = call]_vars

\* a verification gives up at its second failure, a failure that could have
\* been retried
C27_Witness ==
  /\ call.pc = "thrown"
  /\ call.op = "verifyAadhaarOTP"
  /\ call.calls = 2
  /\ call.settled.error.isRetryable

\* the four kinds of failure the retry is meant for: 5xx, 429, a timeout and a
\* network failure without a response
RetryableKind(error) ==
  \/ error.hasResponse /\ (error.status >= 500 \/ error.status = 429)
  \/ ~error.hasResponse /\ error.code \in {"ECONNABORTED", "ETIMEDOUT", "ENOTFOUND", "ECONNREFUSED"}

\* C28: a request of a provider method that fails with a 5xx, a 429, a timeout
\* or a network failure without a response is retried: the call gives up on
\* such a failure only at the ceiling of its invocations.
C28_RetryableFailuresAreRetried ==
  (/\ call.pc = "thrown"
   /\ call.op \in ProviderOps
   /\ call.request.kind = "failed"
   /\ RetryableKind(call.request.error))
    => call.calls = call.options.maxRetries

RECURSIVE Pow(_, _)
Pow(b, n) == IF n = 0 THEN 1 ELSE b * Pow(b, n - 1)

\* C29: the wait before retry i + 1 is min(initialDelay * multiplier^i,
\* maxDelay) for all positive initialDelay, multiplier and maxDelay, and no
\* wait is longer than maxDelay.
C29_DelaysFollowCappedPowers ==
  call.pc # "idle" =>
    \A i \in 1..Len(call.waits) :
       /\ call.waits[i] = Min(call.options.initialDelay
                                * Pow(call.options.backoffMultiplier, i - 1),
                              call.options.maxDelay)
       /\ call.waits[i] <= call.options.maxDelay

\* the latest Aadhaar document of a user, 0 when there is none
LatestAadhaar(st, u) ==
  LET own == {i \in IndexesOf(st, u) : st[i].type = "aadhaar"}
  IN  IF own = {} THEN 0 ELSE SetMax(own)

\* Initiate, GetStatus, GetBadge or a Resend that names no refId has answered
AadhaarLookupStep ==
  /\ res'.seq # res.seq
  /\ res'.op \in {"initiate", "status", "badge", "resend"}

\* C26: Initiate, GetStatus, GetBadge and a Resend without refId act on the
\* most recently created Aadhaar record of the user: the record they select
\* is the user's latest of type aadhaar (a new one when the user has none),
\* and no record of another verification type is selected or changed.
C26_LatestRecordOfTheType ==
  [][AadhaarLookupStep =>
       \A u \in Users :
          /\ res'.target \in {0, LatestAadhaar(store, u),
                              IF LatestAadhaar(store, u) = 0 THEN Len(store) + 1 ELSE 0}
          /\ (LatestAadhaar(store, u) # 0 /\ res'.op \in {"status", "badge"})
                => res'.target = LatestAadhaar(store, u)
          /\ \A i \in 1..Len(store) : store[i].type # "aadhaar" => store'[i] = store[i]]_vars

\* two requests have both gone through a failing verification of the same
\* document and both had read the same otpAttempts
BothCountedFrom(p, r, a) ==
  /\ p # r
  /\ inflight[p].pc = "done" /\ inflight[r].pc = "done"
  /\ inflight[p].counted /\ inflight[r].counted
  /\ inflight[p].i = inflight[r].i
  /\ inflight[p].loaded.otpAttempts = a /\ inflight[r].loaded.otpAttempts = a

\* C25: two failing VerifyOtp calls that run at the same time on one otp_sent
\* record and both read the same otpAttempts both write that value plus one:
\* after both have completed otpAttempts has grown by 1, not by 2.
C25_ConcurrentFailuresCountOnce ==
  \A p \in Requests, r \in Requests, a \in 0..MaxOtpAttempts :
     BothCountedFrom(p, r, a) => store[inflight[p].i].otpAttempts = a + 1

C25_Witness ==
  /\ BothCountedFrom("r1", "r2", 0)
  /\ store[1].otpAttempts = 1

\* C35: the status of every Aadhaar record that Initiate, VerifyOtp and
\* Resend have written is otp_sent, verified or failed; pending, otp_verified
\* and expired are never stored.
C35_OnlyThreeStatusesStored ==
  \A i \in Docs :
     store[i].type = "aadhaar" => store[i].status \in {"otp_sent", "verified", "failed"}

C35_Witness ==
  /\ res.op = "verify"
  /\ res.target \in Docs
  /\ store[res.target].status = "failed"

\* the record a success response of Initiate, VerifyOtp or Resend speaks of
\* is in the collection in the state the response reports
PersistedAsAnswered ==
  /\ res'.target \in 1..Len(store')
  /\ LET doc == store'[res'.target] IN
     IF res'.op = "verify"
     THEN doc.status = "verified" /\ doc.verifiedAt = now
     ELSE /\ doc.status = "otp_sent"
          /\ doc.refId = res'.body.data.refId
          /\ doc.otpSentAt = now

EndedAsLastInvocation ==
  LET r == Wrapped(call.op, call.sandbox, now, call.request) IN
  /\ Len(call.waits) = call.calls - 1
  /\ call.pc = "returned" => (~r.thrown /\ call.settled = r)
  /\ call.pc = "thrown" =>
        /\ r.thrown
        /\ "isRetryable" \in DOMAIN call.settled.error
        /\ call.settled.error.name = "APIError"
        /\ call.settled.error = categorizeError(r.error)

\* C38: retryWithBackoff with maxRetries >= 1 always terminates; it returns
\* the result of the first invocation that succeeds and invokes nothing after
\* it, or throws the categorized APIError of its last failure; it has waited
\* one delay less than it made invocations.
C38_TerminatesWithResultOrAPIError ==
  /\ [](Settled => EndedAsLastInvocation)
  /\ [][Settled => call'.calls = call.calls]_vars
  /\ (call.pc = "calling") ~> Settled

\* a call that returned at its third invocation, after two waits
C38_Witness ==
  /\ call.pc = "returned"
  /\ call.calls = 3
  /\ Len(call.waits) = 2

\* the request left no trace: no record read or written, no call of the
\* provider, no hit counted by a limiter
NoEffect ==
  /\ store' = store
  /\ limits' = limits
  /\ ~res'.upstream
  /\ res'.target = 0

\* C37: an Initiate, VerifyOtp or Resend request with a missing or wrong
\* service token has no effect: no record is read or written, the provider
\* is not called and the rate-limit budget of the user it names is not
\* consumed.
C37_UnauthenticatedHasNoEffect ==
  [][/\ \A q \in ApiInitiateRequests :
           (q.token # ServiceToken /\ res'.op = "initiate" /\ InitiateStep(q)) => NoEffect
     /\ \A q \in ApiVerifyRequests :
           (q.token # ServiceToken /\ res'.op = "verify" /\ VerifyStep(q)) => NoEffect
     /\ \A q \in ApiResendRequests :
           (q.token # ServiceToken /\ res'.op = "resend" /\ ResendStep(q)) => NoEffect]_vars

\* outside test mode, with a record in the collection, a verify request was
\* turned away for its token
C37_Witness ==
  /\ env.NODE_ENV = "production"
  /\ store # <<>>
  /\ res.op = "verify"
  /\ res.status = 401

\* some record holds the reference
HeldBy(i, ref) == store[i].refId = ref \/ store[i].transactionId = ref

\* the reference is that of a record of another user and of no record of u
ForeignRef(u, ref) ==
  /\ \E i \in Docs : store[i].userId # u /\ HeldBy(i, ref)
  /\ \A i \in Docs : store[i].userId = u => ~HeldBy(i, ref)

NotFoundAndUntouched ==
  /\ res'.status = 404
  /\ ~res'.upstream
  /\ store' = store

\* C36: a VerifyOtp or Resend of user A that names a refId belonging only to
\* a record of user B is answered not found, calls the provider not at all
\* and leaves B's record as it is.
C36_SessionsBoundToUser ==
  [][\A u \in TwoUsers, ref \in RefIds :
        /\ (/\ ForeignRef(u, ref)
            /\ res'.seq # res.seq /\ res'.op = "verify"
            /\ \E otp \in {Str(TestOtp), Str(WrongOtp)} :
                  \E reply \in VerifyRepliesTo(u, ref, otp) : VerifyOtp(u, ref, otp, reply))
              => NotFoundAndUntouched
        /\ (/\ ForeignRef(u, ref)
            /\ res'.seq # res.seq /\ res'.op = "resend"
            /\ \E reply \in ResendRepliesTo(u, ref) : Resend(u, ref, reply))
              => NotFoundAndUntouched]_vars

\* each user has a session of its own, with references that differ, and a
\* verification was not found: it named the reference of the other user
C36_Witness ==
  /\ res.op = "verify"
  /\ res.status = 404
  /\ Len(store) = 2
  /\ store[1].userId # store[2].userId
  /\ \A ref \in RefIds : \E i \in Docs : HeldBy(i, ref)

RECURSIVE AnsweredBy(_)
\* the verifications of the requests in S that the provider has answered
\* with a verdict on the OTP
AnsweredBy(S) ==
  IF S = {} THEN 0
  ELSE LET p == CHOOSE x \in S : TRUE
       IN  inflight[p].answered + AnsweredBy(S \ {p})

\* C32: under any interleaving of requests at most 3 VerifyOtp calls reach
\* the provider for one issued OTP; counted here are the calls the provider
\* answered with a verdict, after the one issuance of the pending record.
C32_ThreeGuessesPerOtp ==
  AnsweredBy(Requests) <= MaxOtpAttempts

\* C33: once a record is stored with status verified its status never
\* changes again, whatever requests were under way when it was verified.
C33_VerifiedIsFinal ==
  [][\A i \in 1..Len(store) :
        store[i].status = "verified" => (i <= Len(store') /\ store'[i].status = "verified")]_vars

\* C34: in every reachable state a user has at most one Aadhaar record, also
\* when two Initiate requests of a user without a record run at the same
\* time.
C34_OneAadhaarRecordPerUser ==
  \A u \in Users :
     Cardinality({i \in IndexesOf(store, u) : store[i].type = "aadhaar"}) <= 1

=============================================================================
